---- MODULE Spec2Model ----
(***************************************************************************)
(* Model of the E2EE MCP proxy of hitl-cli: the legacy JSON-RPC proxy      *)
(* (hitl_cli/proxy_handler.py, class ProxyHandler) and the FastMCP proxy   *)
(* (hitl_cli/proxy_handler_v2.py), together with the sealed-box codec they *)
(* share.                                                                  *)
(*                                                                         *)
(* Conventions.  A text is a sequence of code points, a byte string a      *)
(* sequence of numbers in 0..255.  A JSON value is a record                *)
(* [t, s, kids]: t is the kind, s the scalar payload (the characters of a  *)
(* string, the one number of an integer or boolean, the repr of a float),  *)
(* kids the children (a list's items, an object's pairs; a pair holds its  *)
(* key in s and its value as its only kid).                                *)
(***************************************************************************)
EXTENDS Integers, Sequences, FiniteSets, TLC

\* ------------------------------------------------------------------------
\* String constants
\* ------------------------------------------------------------------------

\* S(lit) is the text of a string literal.
StringTable ==
    "" :> <<>>
    @@ "'" :> <<39>>
    @@ "' has no len()" :> <<39, 32, 104, 97, 115, 32, 110, 111, 32, 108, 101, 110, 40, 41>>
    @@ "' in position " :> <<39, 32, 105, 110, 32, 112, 111, 115, 105, 116, 105, 111, 110, 32>>
    @@ "' is not iterable" :> <<39, 32, 105, 115, 32, 110, 111, 116, 32, 105, 116, 101, 114, 97, 98, 108, 101>>
    @@ "' object has no attribute '" :> <<39, 32, 111, 98, 106, 101, 99, 116, 32, 104, 97, 115, 32, 110, 111, 32, 97, 116, 116, 114, 105, 98, 117, 116, 101, 32, 39>>
    @@ "' object has no attribute 'encode'" :> <<39, 32, 111, 98, 106, 101, 99, 116, 32, 104, 97, 115, 32, 110, 111, 32, 97, 116, 116, 114, 105, 98, 117, 116, 101, 32, 39, 101, 110, 99, 111, 100, 101, 39>>
    @@ "' object has no attribute 'get'" :> <<39, 32, 111, 98, 106, 101, 99, 116, 32, 104, 97, 115, 32, 110, 111, 32, 97, 116, 116, 114, 105, 98, 117, 116, 101, 32, 39, 103, 101, 116, 39>>
    @@ "' object is not iterable" :> <<39, 32, 111, 98, 106, 101, 99, 116, 32, 105, 115, 32, 110, 111, 116, 32, 105, 116, 101, 114, 97, 98, 108, 101>>
    @@ "' object is not subscriptable" :> <<39, 32, 111, 98, 106, 101, 99, 116, 32, 105, 115, 32, 110, 111, 116, 32, 115, 117, 98, 115, 99, 114, 105, 112, 116, 97, 98, 108, 101>>
    @@ "'list' object has no attribute 'get'" :> <<39, 108, 105, 115, 116, 39, 32, 111, 98, 106, 101, 99, 116, 32, 104, 97, 115, 32, 110, 111, 32, 97, 116, 116, 114, 105, 98, 117, 116, 101, 32, 39, 103, 101, 116, 39>>
    @@ "'text'" :> <<39, 116, 101, 120, 116, 39>>
    @@ "'utf-8' codec can't decode byte" :> <<39, 117, 116, 102, 45, 56, 39, 32, 99, 111, 100, 101, 99, 32, 99, 97, 110, 39, 116, 32, 100, 101, 99, 111, 100, 101, 32, 98, 121, 116, 101>>
    @@ "'utf-8' codec can't encode character '" :> <<39, 117, 116, 102, 45, 56, 39, 32, 99, 111, 100, 101, 99, 32, 99, 97, 110, 39, 116, 32, 101, 110, 99, 111, 100, 101, 32, 99, 104, 97, 114, 97, 99, 116, 101, 114, 32, 39>>
    @@ "'utf-8' codec can't encode characters in position " :> <<39, 117, 116, 102, 45, 56, 39, 32, 99, 111, 100, 101, 99, 32, 99, 97, 110, 39, 116, 32, 101, 110, 99, 111, 100, 101, 32, 99, 104, 97, 114, 97, 99, 116, 101, 114, 115, 32, 105, 110, 32, 112, 111, 115, 105, 116, 105, 111, 110, 32>>
    @@ ") cannot be 1 more than a multiple of 4" :> <<41, 32, 99, 97, 110, 110, 111, 116, 32, 98, 101, 32, 49, 32, 109, 111, 114, 101, 32, 116, 104, 97, 110, 32, 97, 32, 109, 117, 108, 116, 105, 112, 108, 101, 32, 111, 102, 32, 52>>
    @@ "-0.0" :> <<45, 48, 46, 48>>
    @@ "0" :> <<48>>
    @@ "1e+16" :> <<49, 101, 43, 49, 54>>
    @@ "1e-05" :> <<49, 101, 45, 48, 53>>
    @@ "2.0" :> <<50, 46, 48>>
    @@ "2.5" :> <<50, 46, 53>>
    @@ ": " :> <<58, 32>>
    @@ ": surrogates not allowed" :> <<58, 32, 115, 117, 114, 114, 111, 103, 97, 116, 101, 115, 32, 110, 111, 116, 32, 97, 108, 108, 111, 119, 101, 100>>
    @@ "Agent key file not found" :> <<65, 103, 101, 110, 116, 32, 107, 101, 121, 32, 102, 105, 108, 101, 32, 110, 111, 116, 32, 102, 111, 117, 110, 100>>
    @@ "All connection attempts failed" :> <<65, 108, 108, 32, 99, 111, 110, 110, 101, 99, 116, 105, 111, 110, 32, 97, 116, 116, 101, 109, 112, 116, 115, 32, 102, 97, 105, 108, 101, 100>>
    @@ "An error occurred trying to decrypt the message" :> <<65, 110, 32, 101, 114, 114, 111, 114, 32, 111, 99, 99, 117, 114, 114, 101, 100, 32, 116, 114, 121, 105, 110, 103, 32, 116, 111, 32, 100, 101, 99, 114, 121, 112, 116, 32, 116, 104, 101, 32, 109, 101, 115, 115, 97, 103, 101>>
    @@ "Backend MCP client requires OAuth authentication" :> <<66, 97, 99, 107, 101, 110, 100, 32, 77, 67, 80, 32, 99, 108, 105, 101, 110, 116, 32, 114, 101, 113, 117, 105, 114, 101, 115, 32, 79, 65, 117, 116, 104, 32, 97, 117, 116, 104, 101, 110, 116, 105, 99, 97, 116, 105, 111, 110>>
    @@ "Backend request failed: 500 - " :> <<66, 97, 99, 107, 101, 110, 100, 32, 114, 101, 113, 117, 101, 115, 116, 32, 102, 97, 105, 108, 101, 100, 58, 32, 53, 48, 48, 32, 45, 32>>
    @@ "Bearer " :> <<66, 101, 97, 114, 101, 114, 32>>
    @@ "Bearer None" :> <<66, 101, 97, 114, 101, 114, 32, 78, 111, 110, 101>>
    @@ "Build done" :> <<66, 117, 105, 108, 100, 32, 100, 111, 110, 101>>
    @@ "Client failed to connect: All connection attempts failed" :> <<67, 108, 105, 101, 110, 116, 32, 102, 97, 105, 108, 101, 100, 32, 116, 111, 32, 99, 111, 110, 110, 101, 99, 116, 58, 32, 65, 108, 108, 32, 99, 111, 110, 110, 101, 99, 116, 105, 111, 110, 32, 97, 116, 116, 101, 109, 112, 116, 115, 32, 102, 97, 105, 108, 101, 100>>
    @@ "DecryptionError" :> <<68, 101, 99, 114, 121, 112, 116, 105, 111, 110, 69, 114, 114, 111, 114>>
    @@ "Deploy?" :> <<68, 101, 112, 108, 111, 121, 63>>
    @@ "Device key retrieval requires OAuth authentication" :> <<68, 101, 118, 105, 99, 101, 32, 107, 101, 121, 32, 114, 101, 116, 114, 105, 101, 118, 97, 108, 32, 114, 101, 113, 117, 105, 114, 101, 115, 32, 79, 65, 117, 116, 104, 32, 97, 117, 116, 104, 101, 110, 116, 105, 99, 97, 116, 105, 111, 110>>
    @@ "FM" :> <<70, 77>>
    @@ "Failed to call tool " :> <<70, 97, 105, 108, 101, 100, 32, 116, 111, 32, 99, 97, 108, 108, 32, 116, 111, 111, 108, 32>>
    @@ "Failed to decrypt response" :> <<70, 97, 105, 108, 101, 100, 32, 116, 111, 32, 100, 101, 99, 114, 121, 112, 116, 32, 114, 101, 115, 112, 111, 110, 115, 101>>
    @@ "Failed to decrypt response: " :> <<70, 97, 105, 108, 101, 100, 32, 116, 111, 32, 100, 101, 99, 114, 121, 112, 116, 32, 114, 101, 115, 112, 111, 110, 115, 101, 58, 32>>
    @@ "Failed to get device public keys: 401 - " :> <<70, 97, 105, 108, 101, 100, 32, 116, 111, 32, 103, 101, 116, 32, 100, 101, 118, 105, 99, 101, 32, 112, 117, 98, 108, 105, 99, 32, 107, 101, 121, 115, 58, 32, 52, 48, 49, 32, 45, 32>>
    @@ "Failed to get device public keys: 500 - " :> <<70, 97, 105, 108, 101, 100, 32, 116, 111, 32, 103, 101, 116, 32, 100, 101, 118, 105, 99, 101, 32, 112, 117, 98, 108, 105, 99, 32, 107, 101, 121, 115, 58, 32, 53, 48, 48, 32, 45, 32>>
    @@ "Failed to get tools: " :> <<70, 97, 105, 108, 101, 100, 32, 116, 111, 32, 103, 101, 116, 32, 116, 111, 111, 108, 115, 58, 32>>
    @@ "Failed to process encrypted request: " :> <<70, 97, 105, 108, 101, 100, 32, 116, 111, 32, 112, 114, 111, 99, 101, 115, 115, 32, 101, 110, 99, 114, 121, 112, 116, 101, 100, 32, 114, 101, 113, 117, 101, 115, 116, 58, 32>>
    @@ "Failed to register public key with backend" :> <<70, 97, 105, 108, 101, 100, 32, 116, 111, 32, 114, 101, 103, 105, 115, 116, 101, 114, 32, 112, 117, 98, 108, 105, 99, 32, 107, 101, 121, 32, 119, 105, 116, 104, 32, 98, 97, 99, 107, 101, 110, 100>>
    @@ "Failed to send encrypted notification: " :> <<70, 97, 105, 108, 101, 100, 32, 116, 111, 32, 115, 101, 110, 100, 32, 101, 110, 99, 114, 121, 112, 116, 101, 100, 32, 110, 111, 116, 105, 102, 105, 99, 97, 116, 105, 111, 110, 58, 32>>
    @@ "Incorrect padding" :> <<73, 110, 99, 111, 114, 114, 101, 99, 116, 32, 112, 97, 100, 100, 105, 110, 103>>
    @@ "Internal error: " :> <<73, 110, 116, 101, 114, 110, 97, 108, 32, 101, 114, 114, 111, 114, 58, 32>>
    @@ "Invalid JSON in key file" :> <<73, 110, 118, 97, 108, 105, 100, 32, 74, 83, 79, 78, 32, 105, 110, 32, 107, 101, 121, 32, 102, 105, 108, 101>>
    @@ "Invalid Request - Missing method" :> <<73, 110, 118, 97, 108, 105, 100, 32, 82, 101, 113, 117, 101, 115, 116, 32, 45, 32, 77, 105, 115, 115, 105, 110, 103, 32, 109, 101, 116, 104, 111, 100>>
    @@ "Invalid base64-encoded string: number of data characters (" :> <<73, 110, 118, 97, 108, 105, 100, 32, 98, 97, 115, 101, 54, 52, 45, 101, 110, 99, 111, 100, 101, 100, 32, 115, 116, 114, 105, 110, 103, 58, 32, 110, 117, 109, 98, 101, 114, 32, 111, 102, 32, 100, 97, 116, 97, 32, 99, 104, 97, 114, 97, 99, 116, 101, 114, 115, 32, 40>>
    @@ "Invalid encrypted response format" :> <<73, 110, 118, 97, 108, 105, 100, 32, 101, 110, 99, 114, 121, 112, 116, 101, 100, 32, 114, 101, 115, 112, 111, 110, 115, 101, 32, 102, 111, 114, 109, 97, 116>>
    @@ "Invalid key data" :> <<73, 110, 118, 97, 108, 105, 100, 32, 107, 101, 121, 32, 100, 97, 116, 97>>
    @@ "MCP proxy requires OAuth authentication" :> <<77, 67, 80, 32, 112, 114, 111, 120, 121, 32, 114, 101, 113, 117, 105, 114, 101, 115, 32, 79, 65, 117, 116, 104, 32, 97, 117, 116, 104, 101, 110, 116, 105, 99, 97, 116, 105, 111, 110>>
    @@ "Method not found" :> <<77, 101, 116, 104, 111, 100, 32, 110, 111, 116, 32, 102, 111, 117, 110, 100>>
    @@ "Missing key in file: '" :> <<77, 105, 115, 115, 105, 110, 103, 32, 107, 101, 121, 32, 105, 110, 32, 102, 105, 108, 101, 58, 32, 39>>
    @@ "No" :> <<78, 111>>
    @@ "No OAuth token available for backend connection" :> <<78, 111, 32, 79, 65, 117, 116, 104, 32, 116, 111, 107, 101, 110, 32, 97, 118, 97, 105, 108, 97, 98, 108, 101, 32, 102, 111, 114, 32, 98, 97, 99, 107, 101, 110, 100, 32, 99, 111, 110, 110, 101, 99, 116, 105, 111, 110>>
    @@ "No device public keys" :> <<78, 111, 32, 100, 101, 118, 105, 99, 101, 32, 112, 117, 98, 108, 105, 99, 32, 107, 101, 121, 115>>
    @@ "No device public keys available" :> <<78, 111, 32, 100, 101, 118, 105, 99, 101, 32, 112, 117, 98, 108, 105, 99, 32, 107, 101, 121, 115, 32, 97, 118, 97, 105, 108, 97, 98, 108, 101>>
    @@ "No device public keys available for encryption" :> <<78, 111, 32, 100, 101, 118, 105, 99, 101, 32, 112, 117, 98, 108, 105, 99, 32, 107, 101, 121, 115, 32, 97, 118, 97, 105, 108, 97, 98, 108, 101, 32, 102, 111, 114, 32, 101, 110, 99, 114, 121, 112, 116, 105, 111, 110>>
    @@ "No device public keys provided for encryption" :> <<78, 111, 32, 100, 101, 118, 105, 99, 101, 32, 112, 117, 98, 108, 105, 99, 32, 107, 101, 121, 115, 32, 112, 114, 111, 118, 105, 100, 101, 100, 32, 102, 111, 114, 32, 101, 110, 99, 114, 121, 112, 116, 105, 111, 110>>
    @@ "No encrypted content" :> <<78, 111, 32, 101, 110, 99, 114, 121, 112, 116, 101, 100, 32, 99, 111, 110, 116, 101, 110, 116>>
    @@ "None" :> <<78, 111, 110, 101>>
    @@ "NoneType" :> <<78, 111, 110, 101, 84, 121, 112, 101>>
    @@ "Notification sent successfully" :> <<78, 111, 116, 105, 102, 105, 99, 97, 116, 105, 111, 110, 32, 115, 101, 110, 116, 32, 115, 117, 99, 99, 101, 115, 115, 102, 117, 108, 108, 121>>
    @@ "Out of range float values are not JSON compliant" :> <<79, 117, 116, 32, 111, 102, 32, 114, 97, 110, 103, 101, 32, 102, 108, 111, 97, 116, 32, 118, 97, 108, 117, 101, 115, 32, 97, 114, 101, 32, 110, 111, 116, 32, 74, 83, 79, 78, 32, 99, 111, 109, 112, 108, 105, 97, 110, 116>>
    @@ "PH" :> <<80, 72>>
    @@ "Parse error - Invalid JSON" :> <<80, 97, 114, 115, 101, 32, 101, 114, 114, 111, 114, 32, 45, 32, 73, 110, 118, 97, 108, 105, 100, 32, 74, 83, 79, 78>>
    @@ "PrivateKey must be created from a 32 bytes long raw secret key" :> <<80, 114, 105, 118, 97, 116, 101, 75, 101, 121, 32, 109, 117, 115, 116, 32, 98, 101, 32, 99, 114, 101, 97, 116, 101, 100, 32, 102, 114, 111, 109, 32, 97, 32, 51, 50, 32, 98, 121, 116, 101, 115, 32, 108, 111, 110, 103, 32, 114, 97, 119, 32, 115, 101, 99, 114, 101, 116, 32, 107, 101, 121>>
    @@ "Request timed out waiting for human" :> <<82, 101, 113, 117, 101, 115, 116, 32, 116, 105, 109, 101, 100, 32, 111, 117, 116, 32, 119, 97, 105, 116, 105, 110, 103, 32, 102, 111, 114, 32, 104, 117, 109, 97, 110>>
    @@ "Server error" :> <<83, 101, 114, 118, 101, 114, 32, 101, 114, 114, 111, 114>>
    @@ "Success" :> <<83, 117, 99, 99, 101, 115, 115>>
    @@ "The nonce must be exactly 24 bytes long" :> <<84, 104, 101, 32, 110, 111, 110, 99, 101, 32, 109, 117, 115, 116, 32, 98, 101, 32, 101, 120, 97, 99, 116, 108, 121, 32, 50, 52, 32, 98, 121, 116, 101, 115, 32, 108, 111, 110, 103>>
    @@ "The public key must be exactly 32 bytes long" :> <<84, 104, 101, 32, 112, 117, 98, 108, 105, 99, 32, 107, 101, 121, 32, 109, 117, 115, 116, 32, 98, 101, 32, 101, 120, 97, 99, 116, 108, 121, 32, 51, 50, 32, 98, 121, 116, 101, 115, 32, 108, 111, 110, 103>>
    @@ "Timed out while waiting for response to ClientRequest" :> <<84, 105, 109, 101, 100, 32, 111, 117, 116, 32, 119, 104, 105, 108, 101, 32, 119, 97, 105, 116, 105, 110, 103, 32, 102, 111, 114, 32, 114, 101, 115, 112, 111, 110, 115, 101, 32, 116, 111, 32, 67, 108, 105, 101, 110, 116, 82, 101, 113, 117, 101, 115, 116>>
    @@ "Unexpected library error" :> <<85, 110, 101, 120, 112, 101, 99, 116, 101, 100, 32, 108, 105, 98, 114, 97, 114, 121, 32, 101, 114, 114, 111, 114>>
    @@ "Unknown encrypted response format" :> <<85, 110, 107, 110, 111, 119, 110, 32, 101, 110, 99, 114, 121, 112, 116, 101, 100, 32, 114, 101, 115, 112, 111, 110, 115, 101, 32, 102, 111, 114, 109, 97, 116>>
    @@ "Yes" :> <<89, 101, 115>>
    @@ "_e2ee" :> <<95, 101, 50, 101, 101>>
    @@ "a tool" :> <<97, 32, 116, 111, 111, 108>>
    @@ "argument of type '" :> <<97, 114, 103, 117, 109, 101, 110, 116, 32, 111, 102, 32, 116, 121, 112, 101, 32, 39>>
    @@ "argument should be a bytes-like object or ASCII string, not '" :> <<97, 114, 103, 117, 109, 101, 110, 116, 32, 115, 104, 111, 117, 108, 100, 32, 98, 101, 32, 97, 32, 98, 121, 116, 101, 115, 45, 108, 105, 107, 101, 32, 111, 98, 106, 101, 99, 116, 32, 111, 114, 32, 65, 83, 67, 73, 73, 32, 115, 116, 114, 105, 110, 103, 44, 32, 110, 111, 116, 32, 39>>
    @@ "arguments" :> <<97, 114, 103, 117, 109, 101, 110, 116, 115>>
    @@ "bool" :> <<98, 111, 111, 108>>
    @@ "choices" :> <<99, 104, 111, 105, 99, 101, 115>>
    @@ "code" :> <<99, 111, 100, 101>>
    @@ "content" :> <<99, 111, 110, 116, 101, 110, 116>>
    @@ "description" :> <<100, 101, 115, 99, 114, 105, 112, 116, 105, 111, 110>>
    @@ "dict" :> <<100, 105, 99, 116>>
    @@ "encrypted_payload" :> <<101, 110, 99, 114, 121, 112, 116, 101, 100, 95, 112, 97, 121, 108, 111, 97, 100>>
    @@ "endswith" :> <<101, 110, 100, 115, 119, 105, 116, 104>>
    @@ "error" :> <<101, 114, 114, 111, 114>>
    @@ "float" :> <<102, 108, 111, 97, 116>>
    @@ "get" :> <<103, 101, 116>>
    @@ "id" :> <<105, 100>>
    @@ "inf" :> <<105, 110, 102>>
    @@ "int" :> <<105, 110, 116>>
    @@ "isError" :> <<105, 115, 69, 114, 114, 111, 114>>
    @@ "jsonrpc" :> <<106, 115, 111, 110, 114, 112, 99>>
    @@ "list" :> <<108, 105, 115, 116>>
    @@ "list index out of range" :> <<108, 105, 115, 116, 32, 105, 110, 100, 101, 120, 32, 111, 117, 116, 32, 111, 102, 32, 114, 97, 110, 103, 101>>
    @@ "list_tools" :> <<108, 105, 115, 116, 95, 116, 111, 111, 108, 115>>
    @@ "message" :> <<109, 101, 115, 115, 97, 103, 101>>
    @@ "method" :> <<109, 101, 116, 104, 111, 100>>
    @@ "n" :> <<110>>
    @@ "name" :> <<110, 97, 109, 101>>
    @@ "nan" :> <<110, 97, 110>>
    @@ "not_valid_base64!!!" :> <<110, 111, 116, 95, 118, 97, 108, 105, 100, 95, 98, 97, 115, 101, 54, 52, 33, 33, 33>>
    @@ "notify_human" :> <<110, 111, 116, 105, 102, 121, 95, 104, 117, 109, 97, 110>>
    @@ "notify_human_e2ee" :> <<110, 111, 116, 105, 102, 121, 95, 104, 117, 109, 97, 110, 95, 101, 50, 101, 101>>
    @@ "object of type '" :> <<111, 98, 106, 101, 99, 116, 32, 111, 102, 32, 116, 121, 112, 101, 32, 39>>
    @@ "other_tool" :> <<111, 116, 104, 101, 114, 95, 116, 111, 111, 108>>
    @@ "param" :> <<112, 97, 114, 97, 109>>
    @@ "params" :> <<112, 97, 114, 97, 109, 115>>
    @@ "private_key" :> <<112, 114, 105, 118, 97, 116, 101, 95, 107, 101, 121>>
    @@ "prompt" :> <<112, 114, 111, 109, 112, 116>>
    @@ "public_key" :> <<112, 117, 98, 108, 105, 99, 95, 107, 101, 121>>
    @@ "public_keys" :> <<112, 117, 98, 108, 105, 99, 95, 107, 101, 121, 115>>
    @@ "ratio" :> <<114, 97, 116, 105, 111>>
    @@ "request_human_input" :> <<114, 101, 113, 117, 101, 115, 116, 95, 104, 117, 109, 97, 110, 95, 105, 110, 112, 117, 116>>
    @@ "request_human_input_e2ee" :> <<114, 101, 113, 117, 101, 115, 116, 95, 104, 117, 109, 97, 110, 95, 105, 110, 112, 117, 116, 95, 101, 50, 101, 101>>
    @@ "requires OAuth authentication" :> <<114, 101, 113, 117, 105, 114, 101, 115, 32, 79, 65, 117, 116, 104, 32, 97, 117, 116, 104, 101, 110, 116, 105, 99, 97, 116, 105, 111, 110>>
    @@ "result" :> <<114, 101, 115, 117, 108, 116>>
    @@ "returned" :> <<114, 101, 116, 117, 114, 110, 101, 100>>
    @@ "str" :> <<115, 116, 114>>
    @@ "string argument should contain only ASCII characters" :> <<115, 116, 114, 105, 110, 103, 32, 97, 114, 103, 117, 109, 101, 110, 116, 32, 115, 104, 111, 117, 108, 100, 32, 99, 111, 110, 116, 97, 105, 110, 32, 111, 110, 108, 121, 32, 65, 83, 67, 73, 73, 32, 99, 104, 97, 114, 97, 99, 116, 101, 114, 115>>
    @@ "string index out of range" :> <<115, 116, 114, 105, 110, 103, 32, 105, 110, 100, 101, 120, 32, 111, 117, 116, 32, 111, 102, 32, 114, 97, 110, 103, 101>>
    @@ "text" :> <<116, 101, 120, 116>>
    @@ "timeout" :> <<116, 105, 109, 101, 111, 117, 116>>
    @@ "token" :> <<116, 111, 107, 101, 110>>
    @@ "tools" :> <<116, 111, 111, 108, 115>>
    @@ "tools/call" :> <<116, 111, 111, 108, 115, 47, 99, 97, 108, 108>>
    @@ "tools/list" :> <<116, 111, 111, 108, 115, 47, 108, 105, 115, 116>>
    @@ "type" :> <<116, 121, 112, 101>>
    @@ "value" :> <<118, 97, 108, 117, 101>>
    @@ "x" :> <<120>>
    @@ "x_e2ee_v2" :> <<120, 95, 101, 50, 101, 101, 95, 118, 50>>
    @@ "y" :> <<121>>
    @@ "z" :> <<122>>
    @@ "{invalid json" :> <<123, 105, 110, 118, 97, 108, 105, 100, 32, 106, 115, 111, 110>>
\* end of the string table

\* The string constants of the program: set when its modules are loaded,
\* never changed.
VARIABLE strings

S(lit) == strings[lit]

\* ------------------------------------------------------------------------
\* JSON values
\* ------------------------------------------------------------------------

JStr(s) == [t |-> "str", s |-> s, kids |-> <<>>]
JNum(n) == [t |-> "num", s |-> <<n>>, kids |-> <<>>]
JBool(b) == [t |-> "bool", s |-> <<IF b THEN 1 ELSE 0>>, kids |-> <<>>]
JNull == [t |-> "null", s |-> <<>>, kids |-> <<>>]
JList(items) == [t |-> "list", s |-> <<>>, kids |-> items]
JPair(k, v) == [t |-> "pair", s |-> k, kids |-> <<v>>]
JObj(pairs) == [t |-> "obj", s |-> <<>>, kids |-> pairs]
\* A float holds its repr: "1.5", "100000.0", "-0.0", "1e+16", "nan", "inf".
JFloat(r) == [t |-> "float", s |-> r, kids |-> <<>>]

\* The decimal digits of a natural number.
RECURSIVE Digits(_)
Digits(n) == IF n < 10 THEN <<48 + n>> ELSE Digits(n \div 10) \o <<48 + (n % 10)>>

\* Python's == on two JSON values that were parsed apart: bool, int and
\* float compare by value (True == 1, 1 == 1.0, -0.0 == 0), mappings compare
\* without regard to the order of their keys, sequences compare item by
\* item.  A nan is the one object json.decoder.NaN that json.loads gives for
\* every NaN: it is unequal to itself as a value, while a list or a dict
\* takes an item that is the same object on both sides for equal.
RECURSIVE JsonEq(_, _)
JsonEq(a, b) ==
    LET IsNumber(v) == v.t \in {"num", "bool", "float"}
        \* the repr of the value as a float
        AsFloat(v) ==
            IF v.t # "float"
            THEN (IF v.s[1] < 0 THEN <<45>> \o Digits(0 - v.s[1]) ELSE Digits(v.s[1]))
                 \o <<46, 48>>
            ELSE IF v.s = <<45, 48, 46, 48>> THEN <<48, 46, 48>>
            ELSE v.s
        IsNaN(v) == v.t = "float" /\ v.s = <<110, 97, 110>>
        \* PyObject_RichCompareBool on two items: identity, then ==
        Item(x, y) == (IsNaN(x) /\ IsNaN(y)) \/ JsonEq(x, y)
    IN  IF IsNumber(a) \/ IsNumber(b)
        THEN /\ IsNumber(a) /\ IsNumber(b)
             /\ ~IsNaN(a)
             /\ AsFloat(a) = AsFloat(b)
        ELSE /\ a.t = b.t
             /\ a.s = b.s
             /\ Len(a.kids) = Len(b.kids)
             /\ IF a.t = "obj"
                THEN \A i \in 1..Len(a.kids) :
                       \E j \in 1..Len(b.kids) : JsonEq(a.kids[i], b.kids[j])
                ELSE \A i \in 1..Len(a.kids) : Item(a.kids[i], b.kids[i])

\* ------------------------------------------------------------------------
\* json.dumps (default separators, ensure_ascii)
\* ------------------------------------------------------------------------

\* json.encoder.ESCAPE_ASCII: the quote, the backslash and everything
\* outside ' '..'~' are escaped, a character past U+FFFF as a surrogate pair.
U4(c) ==
    LET HexDigit(n) == IF n < 10 THEN 48 + n ELSE 87 + n
    IN  <<92, 117, HexDigit(c \div 4096), HexDigit((c \div 256) % 16),
          HexDigit((c \div 16) % 16), HexDigit(c % 16)>>

EscapeChar(c) ==
    IF c = 34 THEN <<92, 34>>
    ELSE IF c = 92 THEN <<92, 92>>
    ELSE IF c = 10 THEN <<92, 110>>
    ELSE IF c = 13 THEN <<92, 114>>
    ELSE IF c = 9 THEN <<92, 116>>
    ELSE IF c = 8 THEN <<92, 98>>
    ELSE IF c = 12 THEN <<92, 102>>
    ELSE IF c > 65535
         THEN U4(55296 + ((c - 65536) \div 1024)) \o U4(56320 + ((c - 65536) % 1024))
    ELSE IF c < 32 \/ c > 126 THEN U4(c)
    ELSE <<c>>

\* The concatenation of parts[lo..hi].
RECURSIVE FlatRange(_, _, _)
FlatRange(parts, lo, hi) ==
    IF lo > hi THEN <<>>
    ELSE IF lo = hi THEN parts[lo]
    ELSE FlatRange(parts, lo, (lo + hi) \div 2) \o FlatRange(parts, (lo + hi) \div 2 + 1, hi)

Flatten(parts) == FlatRange(parts, 1, Len(parts))

EscapeStr(s) == Flatten([i \in 1..Len(s) |-> EscapeChar(s[i])])

RECURSIVE Dumps(_), DumpsItems(_)
Dumps(v) ==
    CASE v.t = "str" -> <<34>> \o EscapeStr(v.s) \o <<34>>
      [] v.t = "num" -> IF v.s[1] < 0 THEN <<45>> \o Digits(0 - v.s[1]) ELSE Digits(v.s[1])
      [] v.t = "float" -> IF v.s = <<110, 97, 110>> THEN <<78, 97, 78>>
                          ELSE IF v.s = <<105, 110, 102>>
                               THEN <<73, 110, 102, 105, 110, 105, 116, 121>>
                          ELSE IF v.s = <<45, 105, 110, 102>>
                               THEN <<45, 73, 110, 102, 105, 110, 105, 116, 121>>
                          ELSE v.s
      [] v.t = "bool" -> IF v.s[1] = 1 THEN <<116, 114, 117, 101>>
                         ELSE <<102, 97, 108, 115, 101>>
      [] v.t = "null" -> <<110, 117, 108, 108>>
      [] v.t = "list" -> <<91>> \o DumpsItems(v.kids) \o <<93>>
      [] v.t = "obj" -> <<123>> \o DumpsItems(v.kids) \o <<125>>
      [] v.t = "pair" -> <<34>> \o EscapeStr(v.s) \o <<34, 58, 32>> \o Dumps(v.kids[1])

DumpsItems(items) ==
    IF items = <<>> THEN <<>>
    ELSE IF Len(items) = 1 THEN Dumps(items[1])
    ELSE Dumps(Head(items)) \o <<44, 32>> \o DumpsItems(Tail(items))

\* ------------------------------------------------------------------------
\* json.loads
\* ------------------------------------------------------------------------

ParseFail == [ok |-> FALSE, v |-> JNull, p |-> 0]
ParseOk(v, p) == [ok |-> TRUE, v |-> v, p |-> p]

HexVal(c) ==
    IF c >= 48 /\ c <= 57 THEN c - 48
    ELSE IF c >= 97 /\ c <= 102 THEN c - 87
    ELSE IF c >= 65 /\ c <= 70 THEN c - 55
    ELSE 0 - 1

IsDigit(c) == c >= 48 /\ c <= 57

RECURSIVE SkipWs(_, _)
SkipWs(t, p) ==
    IF p <= Len(t) /\ t[p] \in {32, 9, 10, 13} THEN SkipWs(t, p + 1) ELSE p

\* The value of \uXXXX at position p (the backslash), or -1.
UEscape(t, p) ==
    IF p + 5 <= Len(t) /\ t[p] = 92 /\ t[p + 1] = 117 /\ \A i \in 2..5 : HexVal(t[p + i]) >= 0
    THEN HexVal(t[p + 2]) * 4096 + HexVal(t[p + 3]) * 256 + HexVal(t[p + 4]) * 16
         + HexVal(t[p + 5])
    ELSE 0 - 1

\* The characters of a string whose opening quote has been read; the
\* result's v is a JStr.  A surrogate pair of \u escapes is one character.
RECURSIVE ParseString(_, _, _)
ParseString(t, p, acc) ==
    LET \* the escape at q: its letter e, its value u as \uXXXX, the value
        \* low of a \uXXXX that follows it
        Escape(q, run, e, u, low) ==
            IF e \in {34, 92, 47} THEN ParseString(t, q + 2, Append(run, e))
            ELSE IF e = 110 THEN ParseString(t, q + 2, Append(run, 10))
            ELSE IF e = 114 THEN ParseString(t, q + 2, Append(run, 13))
            ELSE IF e = 116 THEN ParseString(t, q + 2, Append(run, 9))
            ELSE IF e = 98 THEN ParseString(t, q + 2, Append(run, 8))
            ELSE IF e = 102 THEN ParseString(t, q + 2, Append(run, 12))
            ELSE IF e = 117 /\ u >= 0
                 THEN IF u >= 55296 /\ u <= 56319 /\ low >= 56320 /\ low <= 57343
                      THEN ParseString(t, q + 12,
                             Append(run, 65536 + (u - 55296) * 1024 + (low - 56320)))
                      ELSE ParseString(t, q + 6, Append(run, u))
            ELSE ParseFail
        \* the characters read so far, up to the special character at q
        Special(q, run) ==
            IF q > Len(t) THEN ParseFail
            ELSE IF t[q] = 34 THEN ParseOk(JStr(run), q + 1)
            ELSE IF t[q] < 32 THEN ParseFail
            ELSE IF q + 1 > Len(t) THEN ParseFail
            ELSE Escape(q, run, t[q + 1], UEscape(t, q), UEscape(t, q + 6))
        Run(q) == Special(q, acc \o SubSeq(t, p, q - 1))
        \* the first of the positions from p on that hold a quote, a
        \* backslash or a control character; past the end of t when there
        \* is none
        First(special) ==
            IF special = {} THEN Len(t) + 1
            ELSE CHOOSE q \in special : \A r \in special : q <= r
    IN  Run(First({q \in p..Len(t) : t[q] = 34 \/ t[q] = 92 \/ t[q] < 32}))

RECURSIVE ParseDigits(_, _, _)
ParseDigits(t, p, n) ==
    IF p <= Len(t) /\ IsDigit(t[p]) THEN ParseDigits(t, p + 1, n * 10 + (t[p] - 48))
    ELSE [n |-> n, p |-> p]

\* float() of a decimal literal and repr() of the result.  neg: the literal
\* has a sign; whole, frac: the digits before and after its point; exponent:
\* the value of its exponent.  float() gives the double nearest to the
\* literal, ties to the even mantissa, inf past the largest double; repr()
\* gives the shortest digits that read back as that double, and of those the
\* nearest to it.  A literal of at most 15 significant digits within the
\* normal range is its own shortest form; every other one is computed with
\* whole numbers held as sequences of base-10000 limbs, lowest first.
FloatRepr(neg, whole, frac, exponent) ==
    LET all == whole \o frac
        nonzero == {i \in 1..Len(all) : all[i] # 48}
        sign == IF neg THEN <<45>> ELSE <<>>
        Zeros(n) == [i \in 1..n |-> 48]
        \* d: the significant digits; decpt: where the point stands in them
        Repr(d, decpt) ==
            IF decpt <= 0 - 4 \/ decpt > 16
            THEN sign \o <<d[1]>>
                 \o (IF Len(d) > 1 THEN <<46>> \o Tail(d) ELSE <<>>)
                 \o <<101>>
                 \o (IF decpt - 1 < 0 THEN <<45>> ELSE <<43>>)
                 \o (LET e == IF decpt - 1 < 0 THEN 1 - decpt ELSE decpt - 1
                     IN  IF e < 10 THEN <<48>> \o Digits(e) ELSE Digits(e))
            ELSE IF decpt <= 0 THEN sign \o <<48, 46>> \o Zeros(0 - decpt) \o d
            ELSE IF decpt >= Len(d) THEN sign \o d \o Zeros(decpt - Len(d)) \o <<46, 48>>
            ELSE sign \o SubSeq(d, 1, decpt) \o <<46>> \o SubSeq(d, decpt + 1, Len(d))
        \* ---- whole numbers of any size ----
        L(a, i) == IF i <= Len(a) THEN a[i] ELSE 0
        Max(i, j) == IF i >= j THEN i ELSE j
        \* without the zero limbs at the top
        Trim(a) ==
            LET set == {i \in 1..Len(a) : a[i] # 0}
            IN  IF set = {} THEN <<>>
                ELSE SubSeq(a, 1, CHOOSE i \in set : \A j \in set : i >= j)
        \* The limbs lo..hi of a * m + c, a + b + c, a - b - c, and the carry
        \* out of them; the halves are done one after the other.
        RECURSIVE MulC(_, _, _, _, _)
        MulC(a, m, lo, hi, c) ==
            IF lo > hi THEN [s |-> <<>>, c |-> c]
            ELSE IF lo = hi
            THEN [s |-> <<(a[lo] * m + c) % 10000>>, c |-> (a[lo] * m + c) \div 10000]
            ELSE LET left == MulC(a, m, lo, (lo + hi) \div 2, c)
                     right == MulC(a, m, (lo + hi) \div 2 + 1, hi, left.c)
                 IN  [s |-> left.s \o right.s, c |-> right.c]
        RECURSIVE AddC(_, _, _, _, _)
        AddC(a, b, lo, hi, c) ==
            IF lo > hi THEN [s |-> <<>>, c |-> c]
            ELSE IF lo = hi
            THEN [s |-> <<(L(a, lo) + L(b, lo) + c) % 10000>>,
                  c |-> (L(a, lo) + L(b, lo) + c) \div 10000]
            ELSE LET left == AddC(a, b, lo, (lo + hi) \div 2, c)
                     right == AddC(a, b, (lo + hi) \div 2 + 1, hi, left.c)
                 IN  [s |-> left.s \o right.s, c |-> right.c]
        RECURSIVE SubC(_, _, _, _, _)
        SubC(a, b, lo, hi, c) ==
            IF lo > hi THEN [s |-> <<>>, c |-> c]
            ELSE IF lo = hi
            THEN [s |-> <<(a[lo] - L(b, lo) - c + 10000) % 10000>>,
                  c |-> IF a[lo] - L(b, lo) - c < 0 THEN 1 ELSE 0]
            ELSE LET left == SubC(a, b, lo, (lo + hi) \div 2, c)
                     right == SubC(a, b, (lo + hi) \div 2 + 1, hi, left.c)
                 IN  [s |-> left.s \o right.s, c |-> right.c]
        WithCarry(x) == IF x.c = 0 THEN x.s ELSE Append(x.s, x.c)
        \* a * m for 0 < m <= 10000
        MulS(a, m) == WithCarry(MulC(a, m, 1, Len(a), 0))
        Add(a, b) == WithCarry(AddC(a, b, 1, Max(Len(a), Len(b)), 0))
        \* a - b for a >= b
        Sub(a, b) == Trim(SubC(a, b, 1, Len(a), 0).s)
        \* -1, 0, 1 as a < b, a = b, a > b
        Cmp(a, b) ==
            IF Len(a) # Len(b) THEN (IF Len(a) < Len(b) THEN 0 - 1 ELSE 1)
            ELSE LET differ == {i \in 1..Len(a) : a[i] # b[i]}
                     top == CHOOSE i \in differ : \A j \in differ : i >= j
                 IN  IF differ = {} THEN 0
                     ELSE IF a[top] < b[top] THEN 0 - 1 ELSE 1
        RECURSIVE P2(_)
        P2(k) == IF k = 0 THEN 1 ELSE 2 * P2(k - 1)
        \* a * 2^k
        RECURSIVE Shl(_, _)
        Shl(a, k) ==
            IF a = <<>> THEN <<>>
            ELSE IF k > 13 THEN Shl(Shl(a, k \div 2), k - k \div 2)
            ELSE MulS(a, P2(k))
        \* a * 10^k
        MulPow10(a, k) ==
            IF a = <<>> THEN <<>>
            ELSE [i \in 1..(k \div 4) |-> 0]
                 \o MulS(a, CASE k % 4 = 0 -> 1 [] k % 4 = 1 -> 10 [] k % 4 = 2 -> 100
                              [] OTHER -> 1000)
        \* the number written by the digits d
        FromDigits(d) ==
            LET Dig(j) == IF j >= 1 THEN d[j] - 48 ELSE 0
                Limb(hi) == Dig(hi - 3) * 1000 + Dig(hi - 2) * 100 + Dig(hi - 1) * 10 + Dig(hi)
            IN  Trim([i \in 1..((Len(d) + 3) \div 4) |-> Limb(Len(d) - 4 * (i - 1))])
        \* ---- the nearest double: q * 2^e with q < 2^53, e >= -1074 ----
        \* n / m brought into [1, 2) from within a few doublings of it: the
        \* result's n / m is the value / 2^e2
        RECURSIVE Normal(_, _, _)
        Normal(n, m, e2) ==
            IF Cmp(n, MulS(m, 2)) >= 0 THEN Normal(n, MulS(m, 2), e2 + 1)
            ELSE IF Cmp(n, m) < 0 THEN Normal(MulS(n, 2), m, e2 - 1)
            ELSE [n |-> n, m |-> m, e2 |-> e2]
        \* the next `left` bits of x.r / m added to x.q; x.r becomes what
        \* remains, in units of the bit after them
        RECURSIVE Bits(_, _, _)
        Bits(x, m, left) ==
            IF left = 0 THEN x
            ELSE IF x.r = <<>> THEN [q |-> Shl(x.q, left), r |-> <<>>]
            ELSE IF left > 1 THEN Bits(Bits(x, m, left \div 2), m, left - left \div 2)
            ELSE IF Cmp(x.r, m) >= 0
                 THEN [q |-> Add(MulS(x.q, 2), <<1>>), r |-> MulS(Sub(x.r, m), 2)]
                 ELSE [q |-> MulS(x.q, 2), r |-> MulS(x.r, 2)]
        Odd(q) == q # <<>> /\ q[1] % 2 = 1
        \* x.q rounded by what remains, half to even; c: x.r against m
        RoundedBy(x, c) == IF c > 0 \/ (c = 0 /\ Odd(x.q)) THEN Add(x.q, <<1>>) ELSE x.q
        Rounded(x, m) == RoundedBy(x, Cmp(x.r, m))
        \* 2^52 and 2^53
        P52 == <<496, 2737, 5996, 4503>>
        P53 == <<992, 5474, 1992, 9007>>
        \* ---- the shortest digits of q * 2^e (Steele and White, Burger and
        \* Dybvig): r / s is the value, mp / s and mm / s half the gaps to
        \* the doubles above and below, all scaled by 10^-k ----
        RECURSIVE Count(_, _, _)
        Count(r, s, d) ==
            IF Cmp(r, s) >= 0 THEN Count(Sub(r, s), s, d + 1) ELSE [d |-> d, r |-> r]
        \* the last digit: x.d, or the next one up; half: 2 * x.r against s
        Last(x, acc, tc1, tc2, half) ==
            IF tc1 /\ ~tc2 THEN Append(acc, 48 + x.d)
            ELSE IF ~tc1 /\ tc2 THEN Append(acc, 49 + x.d)
            ELSE IF half < 0 THEN Append(acc, 48 + x.d)
            ELSE IF half > 0 THEN Append(acc, 49 + x.d)
            ELSE Append(acc, 48 + x.d + (x.d % 2))
        RECURSIVE Generate(_, _, _, _, _, _), Digit(_, _, _, _, _, _), Pick(_, _, _, _, _, _, _, _)
        \* x: the next digit and what remains; low, high: x.r against the gap
        \* below, x.r and the gap above against s
        Pick(x, s, mp10, mm10, even, acc, low, high) ==
            IF ~(low < 0 \/ (even /\ low = 0)) /\ ~(high > 0 \/ (even /\ high = 0))
            THEN Generate(x.r, s, mp10, mm10, even, Append(acc, 48 + x.d))
            ELSE Last(x, acc, low < 0 \/ (even /\ low = 0), high > 0 \/ (even /\ high = 0),
                      Cmp(MulS(x.r, 2), s))
        Digit(x, s, mp10, mm10, even, acc) ==
            Pick(x, s, mp10, mm10, even, acc, Cmp(x.r, mm10), Cmp(Add(x.r, mp10), s))
        Generate(r, s, mp, mm, even, acc) ==
            Digit(Count(MulS(r, 10), s, 0), s, MulS(mp, 10), MulS(mm, 10), even, acc)
        RECURSIVE Scale(_, _, _, _, _, _), ScaleBy(_, _, _, _, _, _, _, _)
        \* above: r + mp against s; below: 10 * (r + mp) against s
        ScaleBy(r, s, mp, mm, even, k, above, below) ==
            IF above > 0 \/ (even /\ above = 0)
            THEN Scale(r, MulS(s, 10), mp, mm, even, k + 1)
            ELSE IF below < 0 \/ (~even /\ below = 0)
            THEN Scale(MulS(r, 10), s, MulS(mp, 10), MulS(mm, 10), even, k - 1)
            ELSE Repr(Generate(r, s, mp, mm, even, <<>>), k)
        Scale(r, s, mp, mm, even, k) ==
            ScaleBy(r, s, mp, mm, even, k, Cmp(Add(r, mp), s), Cmp(MulS(Add(r, mp), 10), s))
        \* up: 10^k goes to s (k >= 0) or to the others
        Scaled(r0, s0, mp0, mm0, even, k, up, p) ==
            Scale(IF up THEN r0 ELSE MulPow10(r0, p), IF up THEN MulPow10(s0, p) ELSE s0,
                  IF up THEN mp0 ELSE MulPow10(mp0, p), IF up THEN mm0 ELSE MulPow10(mm0, p),
                  even, k)
        \* narrow: the gap below is half the gap above (q a power of two)
        Gaps(q, e, k, narrow, mm0) ==
            Scaled(Shl(q, (IF e >= 0 THEN e ELSE 0) + (IF narrow THEN 2 ELSE 1)),
                   Shl(<<1>>, (IF e >= 0 THEN 0 ELSE 0 - e) + (IF narrow THEN 2 ELSE 1)),
                   IF narrow THEN MulS(mm0, 2) ELSE mm0, mm0, ~Odd(q), k,
                   k >= 0, IF k >= 0 THEN k ELSE 0 - k)
        Shortest(q, e, k) ==
            Gaps(q, e, k, q = P52 /\ e > 0 - 1074, Shl(<<1>>, IF e >= 0 THEN e ELSE 0))
        \* ---- the double of the digits d with the point at decpt; its binary
        \* exponent is within 4 of est = (decpt - 1) * log2(10) ----
        Checked(q, e, decpt) ==
            IF e > 971 THEN sign \o <<105, 110, 102>> ELSE Shortest(q, e, decpt)
        \* q of 2^53 is 2^52 with the exponent one up
        Carried(q, e, decpt, top) ==
            IF q = <<>> THEN sign \o <<48, 46, 48>>
            ELSE Checked(IF top THEN P52 ELSE q, IF top THEN e + 1 ELSE e, decpt)
        Mantissa(q, e, bits, decpt) == Carried(q, e, decpt, bits = 53 /\ q = P53)
        \* bits: 53, or what a subnormal has left of them
        Double(x, bits, decpt) ==
            Mantissa(IF bits < 0 THEN <<>>
                     ELSE Rounded(Bits([q |-> <<>>, r |-> x.n], x.m, bits), x.m),
                     IF bits < 53 THEN 0 - 1074 ELSE x.e2 - 52, bits, decpt)
        Exponent2(x, decpt) ==
            Double(x, IF x.e2 >= 0 - 1022 THEN 53 ELSE x.e2 + 1075, decpt)
        Ratio(n0, m0, est, decpt) ==
            Exponent2(Normal(IF est >= 0 THEN n0 ELSE Shl(n0, 0 - est),
                             IF est >= 0 THEN Shl(m0, est) ELSE m0, est), decpt)
        Whole(big, n, decpt) ==
            Ratio(IF decpt >= n THEN MulPow10(big, decpt - n) ELSE big,
                  IF decpt >= n THEN <<1>> ELSE MulPow10(<<1>>, n - decpt),
                  ((decpt - 1) * 33219) \div 10000, decpt)
        Nearest(d, decpt) == Whole(FromDigits(d), Len(d), decpt)
        Value(d, decpt) ==
            IF decpt > 309 THEN sign \o <<105, 110, 102>>
            ELSE IF decpt < 0 - 323 THEN sign \o <<48, 46, 48>>
            ELSE IF Len(d) <= 15 /\ decpt >= 0 - 306 /\ decpt <= 308 THEN Repr(d, decpt)
            ELSE Nearest(d, decpt)
        Significant(first, last) ==
            Value(SubSeq(all, first, last), Len(whole) + exponent - (first - 1))
    IN  IF nonzero = {} THEN sign \o <<48, 46, 48>>
        ELSE Significant(CHOOSE i \in nonzero : \A j \in nonzero : i <= j,
                         CHOOSE i \in nonzero : \A j \in nonzero : i >= j)

\* NUMBER_RE of json.scanner, (-?(?:0|[1-9]\d*))(\.\d+)?([eE][-+]?\d+)?: an
\* int when the match has neither fraction nor exponent, else a float.
ParseNumber(t, p) ==
    LET neg == t[p] = 45
        q == IF neg THEN p + 1 ELSE p
        At(i) == IF i <= Len(t) THEN t[i] ELSE 0
        \* the position after the run of digits that starts at i
        RunEnd(i) ==
            LET stops == {j \in i..Len(t) : ~IsDigit(t[j])}
            IN  IF stops = {} THEN Len(t) + 1
                ELSE CHOOSE j \in stops : \A k \in stops : j <= k
        \* the exponent's value: digits from..(to - 1), cut off where no
        \* double is that large
        RECURSIVE Exponent(_, _, _)
        Exponent(from, to, n) ==
            IF from >= to THEN n
            ELSE Exponent(from + 1, to, IF n > 99999 THEN n ELSE n * 10 + (t[from] - 48))
        \* ie, fe, ee: the positions after the integer, the fraction, the exponent
        Number(ie) ==
            LET fe == IF At(ie) = 46 /\ IsDigit(At(ie + 1)) THEN RunEnd(ie + 1) ELSE ie
                es == IF At(fe + 1) \in {43, 45} THEN fe + 2 ELSE fe + 1
                ee == IF At(fe) \in {101, 69} /\ IsDigit(At(es)) THEN RunEnd(es) ELSE fe
                e == IF ee = fe THEN 0
                     ELSE IF At(fe + 1) = 45 THEN 0 - Exponent(es, ee, 0)
                     ELSE Exponent(es, ee, 0)
            IN  IF ee = ie
                THEN ParseOk(JNum(IF neg THEN 0 - ParseDigits(SubSeq(t, q, ie - 1), 1, 0).n
                                  ELSE ParseDigits(SubSeq(t, q, ie - 1), 1, 0).n), ie)
                ELSE ParseOk(JFloat(FloatRepr(neg, SubSeq(t, q, ie - 1),
                                              SubSeq(t, ie + 1, fe - 1), e)), ee)
    IN  IF q > Len(t) \/ ~IsDigit(t[q]) THEN ParseFail
        ELSE Number(IF t[q] = 48 THEN q + 1 ELSE RunEnd(q))

HasWord(t, p, w) ==
    /\ p + Len(w) - 1 <= Len(t)
    /\ \A i \in 1..Len(w) : t[p + i - 1] = w[i]

\* A later duplicate key replaces the value of the earlier one.
RECURSIVE PutPair(_, _)
PutPair(pairs, pr) ==
    IF pairs = <<>> THEN <<pr>>
    ELSE IF Head(pairs).s = pr.s THEN <<pr>> \o Tail(pairs)
    ELSE <<Head(pairs)>> \o PutPair(Tail(pairs), pr)

RECURSIVE ParseValue(_, _), ParseArray(_, _, _), ParseObject(_, _, _)
ParseValue(t, p0) ==
    LET Object(q) ==
            IF q <= Len(t) /\ t[q] = 125 THEN ParseOk(JObj(<<>>), q + 1)
            ELSE ParseObject(t, q, <<>>)
        Array(q) ==
            IF q <= Len(t) /\ t[q] = 93 THEN ParseOk(JList(<<>>), q + 1)
            ELSE ParseArray(t, q, <<>>)
        Value(p) ==
            IF p > Len(t) THEN ParseFail
            ELSE IF t[p] = 34 THEN ParseString(t, p + 1, <<>>)
            ELSE IF t[p] = 123 THEN Object(SkipWs(t, p + 1))
            ELSE IF t[p] = 91 THEN Array(SkipWs(t, p + 1))
            ELSE IF HasWord(t, p, <<116, 114, 117, 101>>) THEN ParseOk(JBool(TRUE), p + 4)
            ELSE IF HasWord(t, p, <<102, 97, 108, 115, 101>>) THEN ParseOk(JBool(FALSE), p + 5)
            ELSE IF HasWord(t, p, <<110, 117, 108, 108>>) THEN ParseOk(JNull, p + 4)
            ELSE IF (t[p] = 45 /\ p < Len(t) /\ IsDigit(t[p + 1])) \/ IsDigit(t[p])
                 THEN ParseNumber(t, p)
            ELSE IF HasWord(t, p, <<78, 97, 78>>) THEN ParseOk(JFloat(<<110, 97, 110>>), p + 3)
            ELSE IF HasWord(t, p, <<73, 110, 102, 105, 110, 105, 116, 121>>)
                 THEN ParseOk(JFloat(<<105, 110, 102>>), p + 8)
            ELSE IF HasWord(t, p, <<45, 73, 110, 102, 105, 110, 105, 116, 121>>)
                 THEN ParseOk(JFloat(<<45, 105, 110, 102>>), p + 9)
            ELSE ParseFail
    IN  Value(SkipWs(t, p0))

\* The items of a list from position p (an item is expected there).
ParseArray(t, p, acc) ==
    LET After(r, q) ==
            IF q > Len(t) THEN ParseFail
            ELSE IF t[q] = 93 THEN ParseOk(JList(Append(acc, r.v)), q + 1)
            ELSE IF t[q] = 44 THEN ParseArray(t, q + 1, Append(acc, r.v))
            ELSE ParseFail
        Item(r) == IF ~r.ok THEN ParseFail ELSE After(r, SkipWs(t, r.p))
    IN  Item(ParseValue(t, p))

\* The pairs of an object from position p (a quoted key is expected there).
ParseObject(t, p0, acc) ==
    LET After(pairs, q) ==
            IF q > Len(t) THEN ParseFail
            ELSE IF t[q] = 125 THEN ParseOk(JObj(pairs), q + 1)
            ELSE IF t[q] = 44 THEN ParseObject(t, q + 1, pairs)
            ELSE ParseFail
        Value(k, r) ==
            IF ~r.ok THEN ParseFail
            ELSE After(PutPair(acc, JPair(k.v.s, r.v)), SkipWs(t, r.p))
        Colon(k, c) ==
            IF c > Len(t) \/ t[c] # 58 THEN ParseFail
            ELSE Value(k, ParseValue(t, c + 1))
        Key(k) == IF ~k.ok THEN ParseFail ELSE Colon(k, SkipWs(t, k.p))
        Pair(p) ==
            IF p > Len(t) \/ t[p] # 34 THEN ParseFail
            ELSE Key(ParseString(t, p + 1, <<>>))
    IN  Pair(SkipWs(t, p0))

\* json.loads: one value, then nothing but whitespace.
Loads(t) ==
    LET Whole(r) ==
            IF r.ok /\ SkipWs(t, r.p) = Len(t) + 1 THEN [ok |-> TRUE, v |-> r.v]
            ELSE [ok |-> FALSE, v |-> JNull]
    IN  Whole(ParseValue(t, 1))

\* ------------------------------------------------------------------------
\* str.encode('utf-8') and bytes.decode('utf-8')
\* ------------------------------------------------------------------------

\* str.encode('utf-8'): the bytes, or UnicodeEncodeError at the first run of
\* surrogates.
Utf8Encode(s) ==
    LET Utf8Char(c) ==
            IF c < 128 THEN <<c>>
            ELSE IF c < 2048 THEN <<192 + (c \div 64), 128 + (c % 64)>>
            ELSE IF c < 65536
                 THEN <<224 + (c \div 4096), 128 + ((c \div 64) % 64), 128 + (c % 64)>>
            ELSE <<240 + (c \div 262144), 128 + ((c \div 4096) % 64),
                   128 + ((c \div 64) % 64), 128 + (c % 64)>>
        surrogates == {i \in 1..Len(s) : s[i] >= 55296 /\ s[i] <= 57343}
        \* the run of surrogates from..to
        Error(from, to) ==
            IF from = to
            THEN S("'utf-8' codec can't encode character '") \o U4(s[from])
                 \o S("' in position ") \o Digits(from - 1) \o S(": surrogates not allowed")
            ELSE S("'utf-8' codec can't encode characters in position ") \o Digits(from - 1)
                 \o <<45>> \o Digits(to - 1) \o S(": surrogates not allowed")
        Run(from) ==
            Error(from, CHOOSE j \in from..Len(s) :
                          /\ \A k \in from..j : k \in surrogates
                          /\ (j + 1) \notin surrogates)
    IN  IF surrogates = {}
        THEN [ok |-> TRUE, b |-> Flatten([i \in 1..Len(s) |-> Utf8Char(s[i])]), err |-> <<>>]
        ELSE [ok |-> FALSE, b |-> <<>>,
              err |-> Run(CHOOSE i \in surrogates : \A j \in surrogates : i <= j)]

IsCont(x) == x >= 128 /\ x <= 191

\* The sequence that starts at byte i is complete, is followed by no more
\* continuation bytes than it takes, is not overlong, no surrogate and not
\* past U+10FFFF.
Utf8WellFormed(b, i) ==
    LET x == b[i]
        \* the length of the sequence a lead byte opens; 0 for a byte that opens none
        n == IF x < 128 THEN 1
             ELSE IF x >= 194 /\ x <= 223 THEN 2
             ELSE IF x >= 224 /\ x <= 239 THEN 3
             ELSE IF x >= 240 /\ x <= 244 THEN 4
             ELSE 0
    IN  /\ n > 0
        /\ i + n - 1 <= Len(b)
        /\ \A j \in (i + 1)..(i + n - 1) : IsCont(b[j])
        /\ (i + n <= Len(b) => ~IsCont(b[i + n]))
        /\ (x = 224 => b[i + 1] >= 160)
        /\ (x = 237 => b[i + 1] <= 159)
        /\ (x = 240 => b[i + 1] >= 144)
        /\ (x = 244 => b[i + 1] <= 143)

\* Strict decoding: a stray continuation byte, a truncated or overlong
\* sequence, a surrogate or a value past U+10FFFF is an error.
Utf8Decode(b) ==
    LET leads == SelectSeq([i \in 1..Len(b) |-> i], LAMBDA i : ~IsCont(b[i]))
        \* the code point of the sequence that starts with the byte x at i
        Value(i, x) ==
            IF x < 128 THEN x
            ELSE IF x <= 223 THEN (x - 192) * 64 + (b[i + 1] - 128)
            ELSE IF x <= 239 THEN (x - 224) * 4096 + (b[i + 1] - 128) * 64 + (b[i + 2] - 128)
            ELSE (x - 240) * 262144 + (b[i + 1] - 128) * 4096 + (b[i + 2] - 128) * 64
                 + (b[i + 3] - 128)
    IN  IF (b # <<>> /\ IsCont(b[1])) \/ \E k \in 1..Len(leads) : ~Utf8WellFormed(b, leads[k])
        THEN [ok |-> FALSE, s |-> <<>>]
        ELSE [ok |-> TRUE, s |-> [k \in 1..Len(leads) |-> Value(leads[k], b[leads[k]])]]

\* ------------------------------------------------------------------------
\* base64.b64encode and base64.b64decode (validate=False)
\* ------------------------------------------------------------------------

B64Char(v) ==
    IF v < 26 THEN 65 + v
    ELSE IF v < 52 THEN 97 + (v - 26)
    ELSE IF v < 62 THEN 48 + (v - 52)
    ELSE IF v = 62 THEN 43 ELSE 47

\* The value of a character of the alphabet; 64 for any other character.
B64Val(c) ==
    IF c >= 65 /\ c <= 90 THEN c - 65
    ELSE IF c >= 97 /\ c <= 122 THEN c - 97 + 26
    ELSE IF c >= 48 /\ c <= 57 THEN c - 48 + 52
    ELSE IF c = 43 THEN 62
    ELSE IF c = 47 THEN 63
    ELSE 64

B64Encode(b) ==
    LET n == Len(b)
        at(i) == IF i <= n THEN b[i] ELSE 0
    IN  [j \in 1..(4 * ((n + 2) \div 3)) |->
            LET g == 3 * ((j - 1) \div 4)
                r == (j - 1) % 4
            IN  IF r = 0 THEN B64Char(at(g + 1) \div 4)
                ELSE IF r = 1 THEN B64Char((at(g + 1) % 4) * 16 + (at(g + 2) \div 16))
                ELSE IF r = 2
                     THEN IF g + 2 > n THEN 61
                          ELSE B64Char((at(g + 2) % 16) * 4 + (at(g + 3) \div 64))
                ELSE IF g + 3 > n THEN 61 ELSE B64Char(at(g + 3) % 64)]

\* The CPython that runs the program.  Its binascii differs between
\* releases in what a pad does that completes a quad while data follows;
\* only a text with a pad before data tells the releases apart, and such a
\* text arrives only where a sealed text is sent twice over.
VARIABLE python

\* binascii.a2b_base64, not strict: characters outside the alphabet are
\* skipped; a pad is skipped unless, counted with the pads since the last
\* character of the alphabet, it completes a quad of at least two such
\* characters.  Such a pad ends the parse under CPython 3.11.7 (what follows
\* it is not read); under CPython 3.13.13 it does so only when no character
\* of the alphabet follows, and is skipped otherwise.  Characters left over
\* in an incomplete quad at the end are an error, whose message counts them
\* when there is one.
A2bBase64(t) ==
    LET \* data: the positions of the characters of the alphabet; pads: of the pads
        Decode(data, pads) ==
            LET before(i) == Cardinality({k \in 1..Len(data) : data[k] < i})
                \* the pad at i, with n characters of the alphabet before it
                ends(i, n) ==
                    /\ n % 4 >= 2
                    /\ (n % 4) + Cardinality({j \in pads :
                                     (IF n = 0 THEN 0 ELSE data[n]) < j /\ j <= i}) >= 4
                    /\ (python = "3.13.13" => n = Len(data))
                v(k) == B64Val(t[data[k]])
                Bytes(stopped, count) ==
                    IF ~stopped /\ count % 4 = 1
                    THEN [ok |-> FALSE, b |-> <<>>,
                          err |-> S("Invalid base64-encoded string: number of data characters (")
                                  \o Digits(count)
                                  \o S(") cannot be 1 more than a multiple of 4")]
                    ELSE IF ~stopped /\ count % 4 # 0
                         THEN [ok |-> FALSE, b |-> <<>>, err |-> S("Incorrect padding")]
                    ELSE [ok |-> TRUE, err |-> <<>>,
                          b |-> [m \in 1..((count * 3) \div 4) |->
                                   LET g == 4 * ((m - 1) \div 3)
                                       r == (m - 1) % 3
                                   IN  IF r = 0 THEN v(g + 1) * 4 + (v(g + 2) \div 16)
                                       ELSE IF r = 1 THEN (v(g + 2) % 16) * 16 + (v(g + 3) \div 4)
                                       ELSE (v(g + 3) % 4) * 64 + v(g + 4)]]
                Stops(stops) ==
                    Bytes(stops # {},
                          IF stops = {} THEN Len(data)
                          ELSE before(CHOOSE i \in stops : \A j \in stops : i <= j))
            IN  Stops({i \in pads : ends(i, before(i))})
    IN  Decode(SelectSeq([i \in 1..Len(t) |-> i], LAMBDA i : t[i] # 61 /\ B64Val(t[i]) < 64),
               {i \in 1..Len(t) : t[i] = 61})

\* type(v).__name__
TypeName(v) ==
    CASE v.t = "str" -> S("str") [] v.t = "num" -> S("int") [] v.t = "float" -> S("float")
      [] v.t = "bool" -> S("bool") [] v.t = "null" -> S("NoneType")
      [] v.t = "list" -> S("list") [] v.t = "obj" -> S("dict")

\* base64.b64decode(v): only a str is decoded, and a character outside
\* ASCII is an error before any decoding.
B64Decode(v) ==
    IF v.t # "str"
    THEN [ok |-> FALSE, b |-> <<>>,
          err |-> S("argument should be a bytes-like object or ASCII string, not '")
                  \o TypeName(v) \o S("'")]
    ELSE IF \E i \in 1..Len(v.s) : v.s[i] > 127
         THEN [ok |-> FALSE, b |-> <<>>,
               err |-> S("string argument should contain only ASCII characters")]
    ELSE A2bBase64(v.s)

\* The text is the canonical encoding of some byte string.
IsValidB64(t) == LET Canonical(r) == r.ok /\ B64Encode(r.b) = t IN Canonical(B64Decode(JStr(t)))

\* ------------------------------------------------------------------------
\* Python values: truthiness, dict access, str methods
\* ------------------------------------------------------------------------

IsDict(v) == v.t = "obj"
IsList(v) == v.t = "list"
IsStr(v) == v.t = "str"

\* bool(v)
Truthy(v) ==
    CASE v.t = "null" -> FALSE
      [] v.t = "bool" -> v.s[1] = 1
      [] v.t = "num" -> v.s[1] # 0
      [] v.t = "float" -> v.s \notin {<<48, 46, 48>>, <<45, 48, 46, 48>>}
      [] v.t = "str" -> v.s # <<>>
      [] OTHER -> v.kids # <<>>

\* k in d: a key of a dict, an item of a list, a part of a str
HasKey(d, k) ==
    IF IsDict(d) THEN \E i \in 1..Len(d.kids) : d.kids[i].s = S(k)
    ELSE IF IsList(d) THEN \E i \in 1..Len(d.kids) : d.kids[i] = JStr(S(k))
    ELSE /\ IsStr(d)
         /\ \E i \in 0..(Len(d.s) - Len(S(k))) : SubSeq(d.s, i + 1, i + Len(S(k))) = S(k)

\* d.get(k, default), for a dict d
Get(d, k, default) ==
    IF IsDict(d) /\ HasKey(d, k)
    THEN d.kids[CHOOSE i \in 1..Len(d.kids) : d.kids[i].s = S(k)].kids[1]
    ELSE default

\* A dict literal, from a sequence of <<key literal, value>>.
Dict(items) == JObj([i \in 1..Len(items) |-> JPair(S(items[i][1]), items[i][2])])

Str(lit) == JStr(S(lit))

\* text.endswith(suffix)
EndsWith(text, suffix) ==
    /\ Len(suffix) <= Len(text)
    /\ SubSeq(text, Len(text) - Len(suffix) + 1, Len(text)) = suffix

\* sub in text
Contains(text, sub) ==
    \E i \in 0..(Len(text) - Len(sub)) : SubSeq(text, i + 1, i + Len(sub)) = sub

\* ------------------------------------------------------------------------
\* nacl.public: keys and Box
\*
\* A key is 32 bytes, and its text their base64.  Box(private key, public
\* key) holds the shared key crypto_box_beforenm computes: HSalsa20 of the
\* X25519 of the two keys, which are computed here as libsodium computes
\* them.  What the box does with the shared key is modelled as an
\* authenticated cipher over bytes: the sealed bytes are the nonce of 24
\* bytes, a tag of 16 bytes, the body.  The tag holds eight words chained
\* over the bytes of the shared key, the nonce and the body, so opening
\* fails under any other shared key, after a change of one byte, after
\* changes of several bytes unless all eight chains meet again (one case in
\* about 10^36), and on bytes that are all ASCII, such as a text taken for
\* ciphertext.
\* ------------------------------------------------------------------------

\* Four key pairs PrivateKey.generate() may draw (1, 2: agents; 3, 4:
\* devices).
KeyPairIds == {1, 2, 3, 4}

\* The bytes of the private key of pair k.
PrivateBytes(k) ==
    CASE k = 1 ->
          <<120, 218, 80, 27, 86, 8, 128, 47, 221, 86, 113, 138, 8, 81, 83, 71,
            97, 227, 159, 82, 86, 252, 50, 193, 31, 32, 167, 193, 87, 238, 101, 52>>
      [] k = 2 ->
          <<30, 234, 172, 145, 211, 211, 39, 93, 213, 142, 182, 175, 41, 214, 46, 197,
            112, 88, 201, 71, 63, 73, 39, 127, 175, 141, 246, 118, 47, 2, 7, 132>>
      [] k = 3 ->
          <<23, 224, 102, 79, 178, 131, 23, 54, 16, 188, 163, 31, 182, 151, 202, 230,
            40, 189, 216, 84, 74, 12, 72, 203, 184, 6, 140, 32, 215, 31, 171, 241>>
      [] k = 4 ->
          <<8, 159, 8, 32, 126, 224, 219, 79, 212, 49, 124, 232, 156, 118, 102, 58,
            206, 106, 23, 204, 187, 166, 34, 6, 53, 166, 156, 233, 126, 166, 253, 173>>

\* private_key.public_key of pair k: X25519 of the private key and the base
\* point 9.
PublicBytes(k) ==
    CASE k = 1 ->
          <<68, 2, 86, 25, 24, 57, 8, 212, 246, 77, 235, 27, 202, 186, 57, 206,
            46, 197, 1, 107, 63, 220, 106, 175, 226, 52, 213, 133, 203, 58, 182, 94>>
      [] k = 2 ->
          <<120, 186, 73, 247, 149, 126, 220, 16, 140, 110, 141, 99, 36, 216, 72, 72,
            48, 115, 128, 138, 99, 9, 194, 82, 214, 170, 118, 252, 195, 231, 103, 99>>
      [] k = 3 ->
          <<141, 88, 250, 61, 160, 68, 22, 237, 230, 43, 167, 93, 29, 136, 41, 202,
            131, 143, 242, 79, 121, 181, 255, 196, 113, 137, 15, 105, 142, 206, 225, 37>>
      [] k = 4 ->
          <<17, 124, 57, 243, 189, 196, 19, 136, 238, 123, 91, 232, 176, 217, 144, 226,
            41, 20, 99, 217, 47, 219, 46, 46, 50, 148, 141, 9, 52, 5, 238, 72>>

PublicText(k) == B64Encode(PublicBytes(k))

PrivateText(k) == B64Encode(PrivateBytes(k))

\* crypto_scalarmult_curve25519(q, k, u): X25519 of RFC 7748 on the 32 bytes
\* of a scalar and of a point, which clamps the scalar, drops the top bit of
\* the point and reads it modulo 2^255 - 19.  A number of the field is 20
\* limbs of 13 bits, in which 2^260 is 608; between the operations a limb
\* may pass 2^13 by a little.  The ladder and the inversion are lists of
\* steps <<operation, target, first operand, second operand>> on the
\* registers x2, z2, x3, z3, x1 and four more.
X25519(k, u) ==
    LET RECURSIVE Sum(_, _, _, _, _), Run(_, _, _, _), Ladder(_, _, _), CarryFrom(_, _, _, _),
                  FCarry(_)
        \* every limb gives what it holds above 2^13 to the next, the last
        \* to the first
        Pass(x) ==
            [i \in 1..20 |-> (x[i] % 8192) + (IF i = 1 THEN 608 * (x[20] \div 8192)
                                              ELSE x[i - 1] \div 8192)] \o <<>>
        Norm(x) == Pass(Pass(Pass(x)))
        \* the sum of a[i] * b[m + 1 - i] for i from lo to hi
        Sum(a, b, m, lo, hi) ==
            IF lo = hi THEN a[lo] * b[m + 1 - lo]
            ELSE Sum(a, b, m, lo, (lo + hi) \div 2) + Sum(a, b, m, ((lo + hi) \div 2) + 1, hi)
        \* the 39 limbs of a product, their carries given on, the upper
        \* half brought back as 608
        Wide(w) ==
            [m \in 1..40 |-> (IF m = 40 THEN 0 ELSE w[m] % 8192)
                             + (IF m = 1 THEN 0 ELSE w[m - 1] \div 8192)] \o <<>>
        Fold(w) == [i \in 1..20 |-> w[i] + 608 * w[20 + i]] \o <<>>
        \* a * b, a + b, a - b with 64 * (2^255 - 19) added, 121665 * a
        Field(op, a, b) ==
            IF op = "mul"
            THEN Norm(Fold(Wide([m \in 1..39 |->
                                    Sum(a, b, m, IF m > 20 THEN m - 19 ELSE 1,
                                        IF m > 20 THEN 20 ELSE m)] \o <<>>)))
            ELSE Norm([i \in 1..20 |->
                          CASE op = "add" -> a[i] + b[i]
                            [] op = "sub" -> a[i] + (IF i = 1 THEN 15168 ELSE 16382) - b[i]
                            [] op = "a24" -> 121665 * a[i]] \o <<>>)
        \* the steps lo to hi of a list, the two halves one after the other
        Run(steps, lo, hi, regs) ==
            IF lo = hi
            THEN [regs EXCEPT ![steps[lo][2]] =
                     Field(steps[lo][1], regs[steps[lo][3]], regs[steps[lo][4]])]
            ELSE LET half == Run(steps, lo, (lo + hi) \div 2, regs)
                 IN  IF half = <<>> THEN half ELSE Run(steps, ((lo + hi) \div 2) + 1, hi, half)
        \* one step of the Montgomery ladder
        Step ==
            << <<"add", 6, 1, 2>>, <<"sub", 7, 1, 2>>, <<"add", 8, 3, 4>>, <<"sub", 9, 3, 4>>,
               <<"mul", 9, 9, 6>>, <<"mul", 8, 8, 7>>, <<"add", 3, 9, 8>>, <<"mul", 3, 3, 3>>,
               <<"sub", 4, 9, 8>>, <<"mul", 4, 4, 4>>, <<"mul", 4, 5, 4>>, <<"mul", 6, 6, 6>>,
               <<"mul", 7, 7, 7>>, <<"mul", 1, 6, 7>>, <<"sub", 7, 6, 7>>, <<"a24", 8, 7, 7>>,
               <<"add", 8, 6, 8>>, <<"mul", 2, 7, 8>> >>
        \* x2 times z2 to the power 2^255 - 21, which is x2 / z2, into
        \* register 6
        Square(n) == [i \in 1..n |-> <<"mul", 6, 6, 6>>]
        Invert ==
            << <<"mul", 7, 2, 2>>, <<"mul", 6, 7, 7>>, <<"mul", 6, 6, 6>>, <<"mul", 8, 6, 2>>,
               <<"mul", 9, 8, 7>>, <<"mul", 6, 9, 9>>, <<"mul", 7, 6, 8>> >>
            \o <<<<"mul", 6, 7, 7>>>> \o Square(4) \o <<<<"mul", 7, 6, 7>>>>
            \o <<<<"mul", 6, 7, 7>>>> \o Square(9) \o <<<<"mul", 8, 6, 7>>>>
            \o <<<<"mul", 6, 8, 8>>>> \o Square(19) \o <<<<"mul", 6, 6, 8>>>>
            \o Square(10) \o <<<<"mul", 7, 6, 7>>>>
            \o <<<<"mul", 6, 7, 7>>>> \o Square(49) \o <<<<"mul", 8, 6, 7>>>>
            \o <<<<"mul", 6, 8, 8>>>> \o Square(99) \o <<<<"mul", 6, 6, 8>>>>
            \o Square(50) \o <<<<"mul", 6, 6, 7>>>>
            \o Square(5) \o <<<<"mul", 6, 6, 9>>, <<"mul", 6, 1, 6>> >>
        Bit(t) ==
            IF t = 255 \/ t < 3 THEN 0 ELSE IF t = 254 THEN 1
            ELSE (k[(t \div 8) + 1] \div (2 ^ (t % 8))) % 2
        Swap(regs) == <<regs[3], regs[4], regs[1], regs[2]>> \o SubSeq(regs, 5, 9)
        \* the steps for the bits hi down to lo of the scalar, the two halves
        \* of the range one after the other
        Ladder(hi, lo, regs) ==
            IF hi = lo
            THEN Run(Step, 1, 18, IF Bit(hi) # Bit(hi + 1) THEN Swap(regs) ELSE regs)
            ELSE LET half == Ladder(hi, (hi + lo + 1) \div 2, regs)
                 IN  IF half = <<>> THEN half ELSE Ladder(((hi + lo + 1) \div 2) - 1, lo, half)
        Byte(b, i) == IF i <= Len(b) THEN b[i] ELSE 0
        \* the limbs of 32 bytes, little-endian
        Limbs(b) ==
            [j \in 1..20 |->
                ((Byte(b, ((13 * (j - 1)) \div 8) + 1)
                  + 256 * Byte(b, ((13 * (j - 1)) \div 8) + 2)
                  + 65536 * Byte(b, ((13 * (j - 1)) \div 8) + 3))
                    \div (2 ^ ((13 * (j - 1)) % 8))) % 8192] \o <<>>
        \* the limbs of x brought below 2^13 from limb i on, and what is left over
        CarryFrom(x, i, c, out) ==
            IF i > Len(x) \/ c < 0 \/ Len(out) # i - 1 THEN <<out, c>>
            ELSE CarryFrom(x, i + 1, (x[i] + c) \div 8192, Append(out, (x[i] + c) % 8192))
        Again(r) == IF r[2] = 0 THEN r[1] ELSE FCarry([r[1] EXCEPT ![1] = @ + 608 * r[2]])
        FCarry(x) == Again(CarryFrom(x, 1, 0, <<>>))
        \* the limbs of x with what is above 2^255 brought back as 19
        Top(x) == FCarry([i \in 1..20 |-> IF i = 1 THEN x[1] + 19 * (x[20] \div 256)
                                          ELSE IF i = 20 THEN x[20] % 256 ELSE x[i]] \o <<>>)
        \* y, which is below 2^255, less 2^255 - 19 if it is not below that
        Least(y, t) == IF t[20] >= 256 THEN [t EXCEPT ![20] = @ - 256] ELSE y
        Reduced(y) == Least(y, CarryFrom([y EXCEPT ![1] = @ + 19], 1, 0, <<>>)[1])
        Limb(z, j) == IF j <= 20 THEN z[j] ELSE 0
        \* the 32 bytes of the number the limbs stand for
        Bytes(z) ==
            [i \in 1..32 |->
                ((Limb(z, ((8 * (i - 1)) \div 13) + 1) + 8192 * Limb(z, ((8 * (i - 1)) \div 13) + 2))
                    \div (2 ^ ((8 * (i - 1)) % 13))) % 256] \o <<>>
        One == [i \in 1..20 |-> IF i = 1 THEN 1 ELSE 0] \o <<>>
        Zero == [i \in 1..20 |-> 0] \o <<>>
        Start(x1) == <<One, Zero, x1, One, x1, Zero, Zero, Zero, Zero>>
        Ended(regs) == IF regs = <<>> THEN regs ELSE Bytes(Reduced(Top(Top(FCarry(regs[6])))))
        Inverted(regs) == IF regs = <<>> THEN regs ELSE Ended(Run(Invert, 1, 266, regs))
    IN  Inverted(Ladder(254, 0, Start(Limbs([i \in 1..32 |-> IF i = 32 THEN u[32] % 128
                                                              ELSE u[i]]))))

\* crypto_core_hsalsa20(out, n, k, NULL) for the nonce n of 16 zero bytes,
\* as crypto_box_beforenm calls it.  A word of 32 bits is <<its high half,
\* its low half>>.
HSalsa20(k) ==
    LET RECURSIVE Xor(_, _), Rounds(_, _, _)
        Xor(a, b) ==
            IF a = 0 THEN b ELSE IF b = 0 THEN a
            ELSE ((a + b) % 2) + 2 * Xor(a \div 2, b \div 2)
        Add(x, y) ==
            <<(x[1] + y[1] + ((x[2] + y[2]) \div 65536)) % 65536, (x[2] + y[2]) % 65536>>
        Shift(x, n) ==
            <<((x[1] * (2 ^ n)) % 65536) + (x[2] \div (2 ^ (16 - n))),
              ((x[2] * (2 ^ n)) % 65536) + (x[1] \div (2 ^ (16 - n)))>>
        Rotl(x, n) == IF n >= 16 THEN Shift(<<x[2], x[1]>>, n - 16) ELSE Shift(x, n)
        \* the steps <<a, b, d, n>> of a double round, x[b] ^= rotl(x[a] + x[d], n):
        \* the quarter rounds of the four columns, then of the four rows
        Double ==
            << <<1, 5, 13, 7>>, <<5, 9, 1, 9>>, <<9, 13, 5, 13>>, <<13, 1, 9, 18>>,
               <<6, 10, 2, 7>>, <<10, 14, 6, 9>>, <<14, 2, 10, 13>>, <<2, 6, 14, 18>>,
               <<11, 15, 7, 7>>, <<15, 3, 11, 9>>, <<3, 7, 15, 13>>, <<7, 11, 3, 18>>,
               <<16, 4, 12, 7>>, <<4, 8, 16, 9>>, <<8, 12, 4, 13>>, <<12, 16, 8, 18>>,
               <<1, 2, 4, 7>>, <<2, 3, 1, 9>>, <<3, 4, 2, 13>>, <<4, 1, 3, 18>>,
               <<6, 7, 5, 7>>, <<7, 8, 6, 9>>, <<8, 5, 7, 13>>, <<5, 6, 8, 18>>,
               <<11, 12, 10, 7>>, <<12, 9, 11, 9>>, <<9, 10, 12, 13>>, <<10, 11, 9, 18>>,
               <<16, 13, 15, 7>>, <<13, 14, 16, 9>>, <<14, 15, 13, 13>>, <<15, 16, 14, 18>> >>
        Mixed(x, b, r) == [x EXCEPT ![b] = <<Xor(@[1], r[1]), Xor(@[2], r[2])>>]
        Mix(x, s) == Mixed(x, s[2], Rotl(Add(x[s[1]], x[s[3]]), s[4]))
        \* the steps lo to hi of ten double rounds, the two halves one after
        \* the other
        Rounds(lo, hi, x) ==
            IF lo = hi THEN Mix(x, Double[((lo - 1) % 32) + 1])
            ELSE LET half == Rounds(lo, (lo + hi) \div 2, x)
                 IN  IF half = <<>> THEN half ELSE Rounds(((lo + hi) \div 2) + 1, hi, half)
        Word(i) == <<k[4 * i] * 256 + k[4 * i - 1], k[4 * i - 2] * 256 + k[4 * i - 3]>>
        Out(w) == <<w[2] % 256, w[2] \div 256, w[1] % 256, w[1] \div 256>>
        \* the words 0, 5, 10, 15 and 6 to 9 of the result
        Picked(z) ==
            Out(z[1]) \o Out(z[6]) \o Out(z[11]) \o Out(z[16])
            \o Out(z[7]) \o Out(z[8]) \o Out(z[9]) \o Out(z[10])
    \* "expand 32-byte k", the key, the nonce
    IN  Picked(Rounds(1, 320,
                      << <<24944, 30821>>, Word(1), Word(2), Word(3), Word(4), <<13088, 25710>>,
                         <<0, 0>>, <<0, 0>>, <<0, 0>>, <<0, 0>>, <<31074, 11570>>,
                         Word(5), Word(6), Word(7), Word(8), <<27424, 25972>> >>))

\* PublicKey(v, encoder=Base64Encoder): any 32 bytes make a key (b).
PublicKey(v) ==
    LET Decoded(d) ==
            IF ~d.ok THEN [ok |-> FALSE, b |-> <<>>, err |-> d.err]
            ELSE IF Len(d.b) # 32
                 THEN [ok |-> FALSE, b |-> <<>>,
                       err |-> S("The public key must be exactly 32 bytes long")]
            ELSE [ok |-> TRUE, b |-> d.b, err |-> <<>>]
    IN  Decoded(B64Decode(v))

\* PrivateKey(v, encoder=Base64Encoder), likewise.
PrivateKey(v) ==
    LET Decoded(d) ==
            IF ~d.ok THEN [ok |-> FALSE, b |-> <<>>, err |-> d.err]
            ELSE IF Len(d.b) # 32
                 THEN [ok |-> FALSE, b |-> <<>>,
                       err |-> S("PrivateKey must be created from a 32 bytes long raw secret key")]
            ELSE [ok |-> TRUE, b |-> d.b, err |-> <<>>]
    IN  Decoded(B64Decode(v))

\* The shared keys of the four pairs, as Beforenm computes them from the
\* private key of one pair and the public key of the other.
SharedKey(p) ==
    CASE p = {1} ->
          <<166, 191, 102, 204, 101, 200, 152, 200, 5, 97, 156, 113, 30, 230, 1, 33,
            215, 241, 41, 130, 188, 255, 216, 196, 190, 222, 182, 252, 169, 157, 86, 6>>
      [] p = {1, 2} ->
          <<170, 109, 64, 159, 86, 49, 151, 160, 138, 11, 212, 64, 116, 18, 105, 229,
            192, 199, 178, 214, 86, 224, 248, 186, 92, 5, 205, 195, 65, 59, 18, 76>>
      [] p = {1, 3} ->
          <<143, 214, 175, 67, 32, 41, 96, 118, 118, 27, 176, 228, 237, 239, 185, 215,
            117, 23, 186, 7, 185, 16, 249, 179, 253, 160, 84, 77, 73, 102, 11, 89>>
      [] p = {1, 4} ->
          <<121, 129, 175, 238, 175, 105, 208, 86, 189, 97, 0, 103, 40, 110, 192, 196,
            219, 8, 131, 107, 192, 71, 128, 54, 187, 49, 222, 243, 45, 165, 26, 222>>
      [] p = {2} ->
          <<159, 245, 34, 107, 253, 192, 132, 171, 152, 221, 172, 193, 66, 211, 120, 85,
            240, 189, 107, 79, 191, 211, 203, 190, 46, 239, 232, 252, 119, 210, 205, 138>>
      [] p = {2, 3} ->
          <<197, 146, 47, 245, 202, 173, 119, 218, 80, 230, 173, 20, 137, 100, 236, 128,
            25, 96, 65, 153, 234, 203, 162, 208, 164, 171, 107, 107, 246, 29, 46, 10>>
      [] p = {2, 4} ->
          <<128, 140, 28, 60, 224, 247, 4, 15, 63, 61, 161, 231, 241, 163, 46, 5,
            220, 111, 127, 75, 12, 233, 237, 44, 141, 63, 188, 204, 241, 5, 243, 232>>
      [] p = {3} ->
          <<114, 138, 216, 10, 174, 149, 126, 199, 217, 162, 87, 22, 158, 179, 22, 202,
            160, 202, 42, 236, 228, 112, 40, 236, 55, 244, 181, 105, 107, 223, 233, 117>>
      [] p = {3, 4} ->
          <<62, 141, 246, 50, 227, 54, 80, 108, 113, 109, 41, 85, 37, 15, 237, 242,
            240, 216, 136, 167, 205, 60, 153, 172, 110, 165, 207, 126, 82, 191, 30, 4>>
      [] p = {4} ->
          <<3, 211, 52, 129, 187, 169, 155, 172, 38, 227, 5, 74, 146, 136, 59, 4,
            82, 30, 14, 192, 20, 235, 172, 116, 100, 49, 148, 135, 243, 129, 44, 185>>

\* Box(private_key, public_key): the shared key of crypto_box_beforenm, 32
\* bytes, or <<>> where Box raises instead (crypto_scalarmult_curve25519
\* refuses a result of 32 zero bytes, which the points of small order
\* give).  The keys are the 32 bytes of each.  Between the keys of the four
\* pairs the shared key is looked up, so that the ladder runs for other
\* keys only.
Beforenm(private_key, public_key) ==
    LET private == {j \in KeyPairIds : private_key = PrivateBytes(j)}
        public == {j \in KeyPairIds : public_key = PublicBytes(j)}
        Computed(q) == IF q = [i \in 1..32 |-> 0] THEN <<>> ELSE HSalsa20(q)
    IN  IF private # {} /\ public # {}
        THEN SharedKey({CHOOSE j \in private : TRUE, CHOOSE j \in public : TRUE})
        ELSE Computed(X25519(private_key, public_key))

\* The tag of the bytes m (nonce and body) under the shared key k, 16 bytes.
\* Eight words are chained over the bytes of k and m, two bytes at a time,
\* by h -> (h + the two bytes + 1)^3 modulo the word's prime; the primes
\* leave 2 when divided by 3, so that cubing is one to one: a change of one
\* byte changes every word, and changes of several bytes do not cancel as
\* they would in a sum.  The tag: each word as two bytes of which the first
\* is past 127.
BoxTag(k, m) ==
    LET RECURSIVE Chain(_, _, _, _)
        Primes == <<32717, 32693, 32687, 32633, 32621, 32609, 32603, 32579>>
        Cube(x, p) == (((x * x) % p) * x) % p
        Words(h, c) == [i \in 1..8 |-> Cube((h[i] + c + 1) % Primes[i], Primes[i])] \o <<>>
        \* the bytes 2j - 1 and 2j of b as one number; a last byte on its own
        \* differs from every pair
        Two(b, j) == 257 * b[2 * j - 1] + (IF 2 * j <= Len(b) THEN b[2 * j] + 1 ELSE 0)
        \* the words after the pairs lo to hi of b, the two halves of the
        \* range one after the other
        Chain(b, lo, hi, h) ==
            IF lo = hi THEN Words(h, Two(b, lo))
            ELSE LET half == Chain(b, lo, (lo + hi) \div 2, h)
                 IN  IF half = <<>> THEN half ELSE Chain(b, ((lo + hi) \div 2) + 1, hi, half)
        Tag(w) == [i \in 1..16 |-> IF i % 2 = 1 THEN 128 + (w[(i + 1) \div 2] \div 256)
                                   ELSE w[i \div 2] % 256] \o <<>>
    IN  Tag(Chain(k \o m, 1, (Len(k) + Len(m) + 1) \div 2, <<1, 2, 3, 4, 5, 6, 7, 8>>))

\* Box.encrypt(plaintext) with the nonce it drew: 24 bytes that stand for
\* the draw `nonce`, the tag, the body
BoxEncrypt(k, nonce, plain) ==
    LET \* the body of the plaintext under the shared key k and the first
        \* byte of the nonce
        Mask(first) ==
            [i \in 1..Len(plain) |-> (plain[i] + k[((i - 1) % 32) + 1] + first + i) % 256]
        Sealed(NonceBytes, body) == NonceBytes \o BoxTag(k, NonceBytes \o body) \o body
    IN  Sealed([i \in 1..24 |-> (nonce + i - 1) % 256] \o <<>>, Mask(nonce % 256) \o <<>>)

\* Box.decrypt(ciphertext): the plaintext, or ValueError for a text shorter
\* than a nonce, or CryptoError
BoxDecrypt(k, sealed) ==
    IF Len(sealed) < 24
    THEN [ok |-> FALSE, b |-> <<>>, err |-> S("The nonce must be exactly 24 bytes long")]
    ELSE LET body == SubSeq(sealed, 41, Len(sealed))
             Unmask(first) ==
                 [i \in 1..Len(body) |->
                    (body[i] + 768 - k[((i - 1) % 32) + 1] - ((first + i) % 256)) % 256]
         IN  IF Len(sealed) < 40
                \/ SubSeq(sealed, 25, 40) # BoxTag(k, SubSeq(sealed, 1, 24) \o body)
             THEN [ok |-> FALSE, b |-> <<>>,
                   err |-> S("An error occurred trying to decrypt the message")]
             ELSE [ok |-> TRUE, b |-> Unmask(sealed[1]), err |-> <<>>]

\* ------------------------------------------------------------------------
\* Results of Python calls, JSON-RPC messages
\* ------------------------------------------------------------------------

\* A call returns v, or raises an exception whose str() is err.  Where the
\* source formats a path, a position in a text, a byte or the text of
\* another exception into the message ("Agent key file not found: ...",
\* "Invalid JSON in key file: ...", "Invalid key data: ...", bytes.decode),
\* err is the fixed part before it.
Ok(v) == [ok |-> TRUE, v |-> v, err |-> <<>>]
Raise(msg) == [ok |-> FALSE, v |-> JNull, err |-> msg]

ErrorResponse(jsonrpc, id, code, message) ==
    Dict(<< <<"jsonrpc", jsonrpc>>, <<"id", id>>,
            <<"error", Dict(<< <<"code", JNum(code)>>, <<"message", JStr(message)>> >>)>> >>)

ResultResponse(jsonrpc, id, result) ==
    Dict(<< <<"jsonrpc", jsonrpc>>, <<"id", id>>, <<"result", result>> >>)

TextBlock(text) == Dict(<< <<"type", Str("text")>>, <<"text", JStr(text)>> >>)

\* ------------------------------------------------------------------------
\* crypto.py: the agent key file
\* ------------------------------------------------------------------------

\* json.dumps(key_data, indent=2) of save_agent_keypair
KeyFileText(pub, priv) ==
    <<123, 10, 32, 32>> \o Dumps(Str("public_key")) \o <<58, 32>> \o Dumps(JStr(pub))
    \o <<44, 10, 32, 32>> \o Dumps(Str("private_key")) \o <<58, 32>> \o Dumps(JStr(priv))
    \o <<10, 125>>

\* str() of the KeyError of load_agent_keypair, which is the repr of its
\* text: "Missing key in file: 'public_key'", the double quotes included.
MissingKey(name) == <<34>> \o S("Missing key in file: '") \o name \o S("'") \o <<34>>

\* load_agent_keypair: the (public_key, private_key) texts of the file
LoadAgentKeypair(file) ==
    LET KeyData(j) ==
            IF ~j.ok THEN Raise(S("Invalid JSON in key file"))
            ELSE IF ~IsDict(j.v) THEN Raise(S("Invalid key data"))
            ELSE IF ~HasKey(j.v, "public_key") THEN Raise(MissingKey(S("public_key")))
            ELSE IF ~HasKey(j.v, "private_key") THEN Raise(MissingKey(S("private_key")))
            ELSE IF ~PublicKey(Get(j.v, "public_key", JNull)).ok
                    \/ ~PrivateKey(Get(j.v, "private_key", JNull)).ok
                 THEN Raise(S("Invalid key data"))
            ELSE Ok(JList(<<Get(j.v, "public_key", JNull), Get(j.v, "private_key", JNull)>>))
    IN  IF ~file.exists THEN Raise(S("Agent key file not found"))
        ELSE KeyData(Loads(file.text))

\* ------------------------------------------------------------------------
\* proxy_handler.py: the codec of ProxyHandler
\* ------------------------------------------------------------------------

\* device_public_keys[0]: the one recipient encrypt_arguments seals for
RecipientKey(device_public_keys) ==
    IF IsList(device_public_keys)
    THEN (IF device_public_keys.kids = <<>> THEN Raise(S("list index out of range"))
          ELSE Ok(device_public_keys.kids[1]))
    ELSE IF IsStr(device_public_keys)
    THEN (IF device_public_keys.s = <<>> THEN Raise(S("string index out of range"))
          ELSE Ok(JStr(<<device_public_keys.s[1]>>)))
    ELSE IF IsDict(device_public_keys) THEN Raise(S("0"))
    ELSE Raise(S("'") \o TypeName(device_public_keys) \o S("' object is not subscriptable"))

\* An encrypt_arguments that seals for the last key of the list.
encrypt_arguments_LastKey(agent, arguments, device_public_keys, nonce) ==
    IF ~Truthy(device_public_keys)
    THEN Raise(S("No device public keys provided for encryption"))
    ELSE LET pk == PublicKey(device_public_keys.kids[Len(device_public_keys.kids)]) IN
         Ok(JStr(B64Encode(BoxEncrypt(Beforenm(agent, pk.b), nonce,
                                      Utf8Encode(Dumps(arguments)).b))))

\* ProxyHandler.encrypt_arguments, for the bytes of the agent private key
\* loaded at construction (agent) and the nonce Box.encrypt draws.
encrypt_arguments(agent, arguments, device_public_keys, nonce) ==
    LET \* box.encrypt(json.dumps(arguments).encode('utf-8'))
        Boxed(k) ==
            IF k = <<>> THEN Raise(S("Unexpected library error"))
            ELSE Ok(JStr(B64Encode(BoxEncrypt(k, nonce, Utf8Encode(Dumps(arguments)).b))))
        \* PublicKey(...), Box(self.agent_private_key, device_public_key)
        Seal(pk) == IF ~pk.ok THEN Raise(pk.err) ELSE Boxed(Beforenm(agent, pk.b))
        First(key) == IF ~key.ok THEN Raise(key.err) ELSE Seal(PublicKey(key.v))
    IN  IF ~Truthy(device_public_keys)
        THEN Raise(S("No device public keys provided for encryption"))
        ELSE First(RecipientKey(device_public_keys))

\* ProxyHandler.decrypt_response, for the bytes of the agent private key
\* (agent)
decrypt_response(agent, encrypted_data, device_public_key) ==
    LET pre == S("Failed to decrypt response: ")
        \* decrypted_bytes.decode('utf-8')
        Text(u) ==
            IF ~u.ok THEN Raise(pre \o S("'utf-8' codec can't decode byte"))
            ELSE Ok(JStr(u.s))
        \* box.decrypt(encrypted_bytes)
        Opened(o) ==
            IF ~o.ok THEN Raise(pre \o o.err)
            ELSE Text(Utf8Decode(o.b))
        Boxed(k, d) ==
            IF k = <<>> THEN Raise(pre \o S("Unexpected library error"))
            ELSE Opened(BoxDecrypt(k, d.b))
        \* base64.b64decode(encrypted_data), PublicKey(device_public_key),
        \* Box(self.agent_private_key, device_pub_key)
        Decoded(d, pk) ==
            IF ~d.ok THEN Raise(pre \o d.err)
            ELSE IF ~pk.ok THEN Raise(pre \o pk.err)
            ELSE Boxed(Beforenm(agent, pk.b), d)
    IN  Decoded(B64Decode(encrypted_data), PublicKey(device_public_key))

BlockText(b) == Get(b, "text", JNull)

\* The texts of process_encrypted_response: of the content's dict blocks.
ContentTexts(content) ==
    IF IsDict(content) THEN Ok(JList(<<BlockText(content)>>))
    ELSE IF IsList(content)
         THEN LET blocks == SelectSeq(content.kids, IsDict)
              IN  Ok(JList([i \in 1..Len(blocks) |-> BlockText(blocks[i])]))
    ELSE IF IsStr(content) THEN Ok(JList(<<>>))
    ELSE Raise(S("'") \o TypeName(content) \o S("' object is not iterable"))

\* ProxyHandler.process_encrypted_response of a dict response_payload,
\* reading the key file as it is at the time of the call.
process_encrypted_response(file, response_payload, device_public_key_b64) ==
    LET jsonrpc == Get(response_payload, "jsonrpc", Str("2.0"))
        id == Get(response_payload, "id", JNull)
        failed(e) == ErrorResponse(jsonrpc, id, 0 - 32603, S("Failed to decrypt response: ") \o e)
        \* plaintext_bytes.decode("utf-8")
        Text(u) ==
            IF ~u.ok THEN failed(S("'utf-8' codec can't decode byte"))
            ELSE ResultResponse(jsonrpc, id, Dict(<< <<"content", JList(<<TextBlock(u.s)>>)>> >>))
        \* box.decrypt(ciphertext)
        Opened(o) ==
            IF ~o.ok THEN failed(o.err)
            ELSE Text(Utf8Decode(o.b))
        \* Box(agent_private, device_public), box.decrypt(ciphertext)
        Boxed(k, ciphertext) ==
            IF k = <<>> THEN failed(S("Unexpected library error"))
            ELSE Opened(BoxDecrypt(k, ciphertext))
        Box(priv, pk, ciphertext) == Boxed(Beforenm(priv.b, pk.b), ciphertext)
        \* base64.b64decode(enc_text), or enc_text.encode() when that raises
        Decoded(priv, pk, enc_text, d) ==
            IF d.ok THEN Box(priv, pk, d.b)
            ELSE IF ~IsStr(enc_text)
                 THEN failed(S("'") \o TypeName(enc_text)
                             \o S("' object has no attribute 'encode'"))
            ELSE IF ~Utf8Encode(enc_text.s).ok THEN failed(Utf8Encode(enc_text.s).err)
            ELSE Box(priv, pk, Utf8Encode(enc_text.s).b)
        \* texts[0]
        Texts(priv, pk, texts) ==
            IF ~texts.ok THEN failed(texts.err)
            ELSE IF texts.v.kids = <<>> \/ ~Truthy(texts.v.kids[1])
                 THEN failed(S("No encrypted content"))
            ELSE Decoded(priv, pk, texts.v.kids[1], B64Decode(texts.v.kids[1]))
        \* response_payload.get("result") or {}
        Result(priv, pk, r) ==
            IF Truthy(r) /\ ~IsDict(r)
            THEN failed(S("'") \o TypeName(r) \o S("' object has no attribute 'get'"))
            ELSE Texts(priv, pk,
                       ContentTexts(IF Truthy(r) THEN Get(r, "content", JList(<<>>))
                                    ELSE JList(<<>>)))
        \* load_agent_keypair(), PrivateKey(...), PublicKey(...)
        Keys(kp, pk) ==
            IF ~kp.ok THEN failed(kp.err)
            ELSE IF ~pk.ok THEN failed(pk.err)
            ELSE Result(PrivateKey(kp.v.kids[2]), pk, Get(response_payload, "result", JNull))
    IN  Keys(LoadAgentKeypair(file), PublicKey(device_public_key_b64))

\* ------------------------------------------------------------------------
\* State
\* ------------------------------------------------------------------------

VARIABLES
    proxy,       \* the proxy this process runs: "PH" (ProxyHandler) or "FM" (FastMCP server)
    calls,       \* the invocations in flight or finished, by call number
    deviceKeys,  \* the backend's device key list of the account (a JSON list)
    tokenStore,  \* the OAuth token file: "absent", "valid", or "no_access_token" for a
                 \* file whose JSON object holds no access_token
    keyFile,     \* the agent key file: [exists, text, mode], and dir, the mode of its
                 \* directory (<<>> while there is none); modes are octal digits
    agentKey,    \* the agent key pair the proxy loaded when it was constructed: the list
                 \* of the texts of its public and its private key
    codec,       \* one use of the codec on its own: sealing, transit, opening
    loop,        \* start_proxy_loop: its position and what it has read and written
    tasks        \* the operations of crypto.py or of the proxy modules running on their
                 \* own, by number

vars == <<strings, python, proxy, calls, deviceKeys, tokenStore, keyFile, agentKey, codec, loop, tasks>>

\* self.agent_private_key of ProxyHandler, agent_private_key of the FastMCP
\* server: the key made of the private key text loaded at construction (its
\* bytes).
AgentPrivateKey == PrivateKey(agentKey.kids[2]).b

\* The number of invocations that may be in flight together.
MaxCalls == 2

CallIds == 1..MaxCalls

\* One step of an invocation, as it is observed: what happened, the device
\* key it used (or null), the request it handed to the gateway (or null;
\* for the opening of a response, the agent private key that opens it).
Ev(ev, key, req) == [ev |-> ev, key |-> key, req |-> req]

Pending == [kind |-> "pending", v |-> JNull, err |-> <<>>]
Returned(v) == [kind |-> "returned", v |-> v, err |-> <<>>]
Raised(msg) == [kind |-> "raised", v |-> JNull, err |-> msg]

IdleCall ==
    [pc |-> "idle", request |-> JNull, keys |-> JNull,
     trace |-> <<>>, out |-> Pending]

\* Calls are numbered in the order in which they arrive.
IsNextCall(c) ==
    /\ calls[c].pc = "idle"
    /\ \A d \in CallIds : d < c => calls[d].pc # "idle"

\* ------------------------------------------------------------------------
\* Inputs: what callers send, what the backend answers
\* ------------------------------------------------------------------------

RhiArguments ==
    Dict(<< <<"prompt", Str("Deploy?")>>, <<"choices", JList(<<Str("Yes"), Str("No")>>)>> >>)

NotifyArguments == Dict(<< <<"message", Str("Build done")>> >>)

OtherArguments ==
    Dict(<< <<"param", Str("value")>>, <<"n", JNum(3)>>, <<"ratio", JFloat(S("2.5"))>> >>)

ToolsCall(id, name, arguments) ==
    Dict(<< <<"jsonrpc", Str("2.0")>>, <<"id", id>>, <<"method", Str("tools/call")>>,
            <<"params", Dict(<< <<"name", JStr(name)>>, <<"arguments", arguments>> >>)>> >>)

\* The requests a caller of ProxyHandler sends as call c.
PHRequests(c) ==
    LET id == JNum(10 + c) IN
    { Dict(<< <<"jsonrpc", Str("2.0")>>, <<"id", id>>, <<"method", Str("tools/list")>> >>),
      ToolsCall(id, S("request_human_input"), RhiArguments),
      ToolsCall(id, S("notify_human"), NotifyArguments),
      ToolsCall(id, S("other_tool"), OtherArguments) }

\* Lines that are no JSON-RPC request: text that is no JSON, JSON values
\* that are no object, an object without 'method'.
MalformedLines ==
    { S("{invalid json"),
      Dumps(JList(<<JNum(1)>>)),
      Dumps(Str("tools/list")),
      Dumps(Dict(<< <<"jsonrpc", Str("2.0")>>, <<"id", JNum(1)>> >>)) }

\* The device key lists the backend may hold: none, one device, a second
\* device registered ahead of the first.
DeviceKeyLists ==
    { JList(<<>>),
      JList(<<JStr(PublicText(3))>>),
      JList(<<JStr(PublicText(4)), JStr(PublicText(3))>>) }

\* The nonces Box.encrypt may draw.
Nonces == {7}

\* A response text sealed by device d for the agent public key (its bytes).
DeviceSeal(d, agent_public_key, nonce, text) ==
    JStr(B64Encode(BoxEncrypt(Beforenm(PrivateBytes(d), agent_public_key), nonce,
                              Utf8Encode(text).b)))

\* The text with the byte at position i of its decoded form changed by delta.
TamperByte(text, i, delta) ==
    LET Altered(b) ==
            JStr(B64Encode([j \in 1..Len(b) |-> IF j = i THEN (b[j] + delta) % 256 ELSE b[j]]))
    IN  Altered(B64Decode(text).b)

\* The text with a character outside the base64 alphabet put before
\* position i.
InsertChar(text, i, ch) ==
    JStr(SubSeq(text.s, 1, i - 1) \o <<ch>> \o SubSeq(text.s, i, Len(text.s)))

ToolResult(text) == Dict(<< <<"content", JList(<<Dict(<< <<"type", Str("text")>>, <<"text", text>> >>)>>)>>,
                            <<"isError", JBool(FALSE)>> >>)

\* The human's answer "Yes", sealed for the agent by the first and by the
\* second device, and the first altered in one byte on the way.
SealedByD1 == DeviceSeal(3, PublicBytes(1), 9, S("Yes"))
SealedByD2 == DeviceSeal(4, PublicBytes(1), 9, S("Yes"))
SealedAltered == TamperByte(SealedByD1, 41, 1)

\* The bodies the backend may answer an '_e2ee' call of request id with:
\* the reply of either device, a reply altered on the way, a JSON-RPC error.
E2eeReplies(id) ==
    { ResultResponse(Str("2.0"), id, ToolResult(SealedByD1)),
      ResultResponse(Str("2.0"), id, ToolResult(SealedByD2)),
      ResultResponse(Str("2.0"), id, ToolResult(SealedAltered)),
      ErrorResponse(Str("2.0"), id, 0 - 32000, S("Request timed out waiting for human")) }

\* The bodies the backend may answer a forwarded request of id with.
PlainReplies(id) ==
    { ResultResponse(Str("2.0"), id, ToolResult(Str("Success"))),
      ErrorResponse(Str("2.0"), id, 0 - 32601, S("Method not found")) }

ToolDescriptor(name) ==
    Dict(<< <<"name", JStr(name)>>, <<"description", Str("a tool")>> >>)

\* The catalogs the backend may hold, and answer tools/list with.
Catalogs ==
    { <<>>,
      <<ToolDescriptor(S("request_human_input")), ToolDescriptor(S("request_human_input_e2ee")),
        ToolDescriptor(S("notify_human")), ToolDescriptor(S("notify_human_e2ee")),
        ToolDescriptor(S("other_tool"))>>,
      <<ToolDescriptor(S("request_human_input_e2ee")), ToolDescriptor(S("_e2ee")),
        ToolDescriptor(S("x_e2ee_v2"))>>,
      <<ToolDescriptor(S("request_human_input")), Dict(<< <<"description", Str("a tool")>> >>)>> }

\* ------------------------------------------------------------------------
\* proxy_handler.py: ProxyHandler, one action per stretch of a handler
\* between two suspension points
\* ------------------------------------------------------------------------

\* is_using_oauth()
is_using_oauth == tokenStore # "absent"

\* get_current_oauth_token(): the access_token of the token file, or None
get_current_oauth_token == IF tokenStore = "valid" THEN Str("token") ELSE JNull

Finish(c, trace, out) ==
    calls' = [calls EXCEPT ![c].pc = "done", ![c].trace = trace, ![c].out = out]

\* A dispatch that hands every tool call to handle_request_human_input.
IsIntercepted_Any(name) == TRUE

\* params.get("name") == "request_human_input": the tool calls that
\* handle_mcp_request hands to handle_request_human_input
IsIntercepted(name) == name = Str("request_human_input")

\* The branch handle_mcp_request takes for a request line that json.loads
\* turned into j: "parse_error", "not_dict" (request.get raises),
\* "no_method", "bad_params" (params.get raises), "list", "sensitive" or
\* "forward".
Dispatch(j) ==
    IF ~j.ok THEN "parse_error"
    ELSE IF ~IsDict(j.v) THEN "not_dict"
    ELSE IF ~HasKey(j.v, "method") THEN "no_method"
    ELSE IF Get(j.v, "method", JNull) = Str("tools/list") THEN "list"
    ELSE IF Get(j.v, "method", JNull) # Str("tools/call") THEN "forward"
    ELSE IF ~IsDict(Get(j.v, "params", JObj(<<>>))) THEN "bad_params"
    ELSE IF IsIntercepted(Get(Get(j.v, "params", JObj(<<>>)), "name", JNull)) THEN "sensitive"
    ELSE "forward"

\* The request get_backend_tools sends.
BackendListRequest ==
    Dict(<< <<"jsonrpc", Str("2.0")>>, <<"id", JNum(1)>>, <<"method", Str("tools/list")>>,
            <<"params", JObj(<<>>)>> >>)

NoOAuth == S("MCP proxy requires OAuth authentication")

\* repr of the first float of v, in the order json.dumps writes it, that is
\* no finite number ('nan', 'inf', '-inf'); the empty text when v has none.
RECURSIVE NonFinite(_)
NonFinite(v) ==
    IF v.t = "float"
    THEN (IF v.s \in {<<110, 97, 110>>, <<105, 110, 102>>, <<45, 105, 110, 102>>} THEN v.s
          ELSE <<>>)
    ELSE LET found == {i \in 1..Len(v.kids) : NonFinite(v.kids[i]) # <<>>}
         IN  IF found = {} THEN <<>>
             ELSE NonFinite(v.kids[CHOOSE i \in found : \A j \in found : i <= j])

\* What forward_to_backend(req) raises before anything is sent: no OAuth
\* token file is there, or client.post(json=req) cannot encode the body
\* (httpx calls json.dumps with allow_nan=False, whose ValueError names the
\* float from CPython 3.12 on).  Otherwise the request is posted.
ForwardRaises(req) ==
    IF ~is_using_oauth THEN Raise(NoOAuth)
    ELSE IF NonFinite(req) # <<>>
         THEN Raise(S("Out of range float values are not JSON compliant")
                    \o (IF python = "3.11.7" THEN <<>> ELSE S(": ") \o NonFinite(req)))
    ELSE Ok(JNull)

\* The trace of forward_to_backend(req) up to its suspension, or up to the
\* exception it raises before anything is sent.
ForwardTrace(req) ==
    IF ForwardRaises(req).ok THEN <<Ev("gateway", JNull, req), Ev("post", JNull, req)>>
    ELSE <<Ev("gateway", JNull, req)>>

\* How the POST of forward_to_backend may fail, with the str() of what is
\* raised: a status other than 200, httpx.ReadTimeout once the timeout has
\* passed, httpx.ConnectError and httpx.ReadError when the transport fails.
PostFailures ==
    { [kind |-> "status", msg |-> S("Backend request failed: 500 - ")],
      [kind |-> "timeout", msg |-> S("")],
      [kind |-> "transport", msg |-> S("All connection attempts failed")],
      [kind |-> "transport", msg |-> S("")] }

\* A handler that sends the request once more when the invocation failed.
FailedTrace_Retry(trace, f) == trace \o <<Ev(f.kind, JNull, JNull), Ev("post", JNull, JNull)>>

\* The trace of an invocation that failed by f: the exception leaves
\* forward_to_backend (or call_tool), nothing is sent again.
FailedTrace(trace, f) == Append(trace, Ev(f.kind, JNull, JNull))

\* handle_mcp_request, from the request line to the first suspension point
\* (or to its end, when it ends before).
handle_mcp_request(c, line) ==
    LET Handle(branch, request, id, start) ==
          CASE branch = "parse_error" ->
                 calls' = [start EXCEPT ![c].pc = "done", ![c].request = JStr(line),
                             ![c].out = Returned(ErrorResponse(Str("2.0"), JNull, 0 - 32700,
                                                   S("Parse error - Invalid JSON")))]
            [] branch = "not_dict" ->
                 calls' = [start EXCEPT ![c].pc = "done",
                             ![c].out = Raised(S("'") \o TypeName(request)
                                               \o S("' object has no attribute 'get'"))]
            [] branch = "no_method" ->
                 calls' = [start EXCEPT ![c].pc = "done",
                             ![c].out = Returned(ErrorResponse(Str("2.0"), id, 0 - 32600,
                                                   S("Invalid Request - Missing method")))]
            [] branch = "bad_params" ->
                 calls' = [start EXCEPT ![c].pc = "done",
                             ![c].out = Raised(S("'") \o TypeName(Get(request, "params", JNull))
                                               \o S("' object has no attribute 'get'"))]
            [] branch = "list" ->
                 \* handle_tools_list: get_backend_tools, forward_to_backend
                 IF is_using_oauth
                 THEN calls' = [start EXCEPT ![c].pc = "list_wait",
                                  ![c].trace = ForwardTrace(BackendListRequest)]
                 ELSE calls' = [start EXCEPT ![c].pc = "done",
                                  ![c].trace = ForwardTrace(BackendListRequest),
                                  ![c].out = Returned(ErrorResponse(Str("2.0"), id, 0 - 32603,
                                                        S("Failed to get tools: ") \o NoOAuth))]
            [] branch = "sensitive" ->
                 \* handle_request_human_input: get_device_public_keys
                 IF is_using_oauth
                 THEN calls' = [start EXCEPT ![c].pc = "keys_wait",
                                  ![c].trace = <<Ev("fetch", JNull, JNull), Ev("get", JNull, JNull)>>]
                 ELSE calls' = [start EXCEPT ![c].pc = "done",
                                  ![c].trace = <<Ev("fetch", JNull, JNull)>>,
                                  ![c].out = Returned(ErrorResponse(Str("2.0"), id, 0 - 32603,
                                               S("Failed to process encrypted request: ") \o NoOAuth))]
            [] branch = "forward" ->
                 IF ForwardRaises(request).ok
                 THEN calls' = [start EXCEPT ![c].pc = "fwd_wait", ![c].trace = ForwardTrace(request)]
                 ELSE calls' = [start EXCEPT ![c].pc = "done", ![c].trace = ForwardTrace(request),
                                  ![c].out = Raised(ForwardRaises(request).err)]
        Parsed(j) ==
            Handle(Dispatch(j), j.v, Get(j.v, "id", JNull), [calls EXCEPT ![c].request = j.v])
    IN  Parsed(Loads(line))

\* The request lines a caller of ProxyHandler sends as call c: the requests,
\* and lines that are no JSON-RPC request.
PHLines(c) == { Dumps(r) : r \in PHRequests(c) } \cup MalformedLines

\* A caller sends a request line to ProxyHandler as call c.
PHStart(c) ==
    /\ proxy = "PH"
    /\ IsNextCall(c)
    /\ \E line \in PHLines(c) : handle_mcp_request(c, line)
    /\ UNCHANGED <<strings, python, proxy, deviceKeys, tokenStore, keyFile, agentKey, codec, loop, tasks>>

\* forward_to_backend of a passed-through request returns: the body of a
\* 200 answer is returned as it is, any other status raises.
PHForwardReturn(c) ==
    /\ calls[c].pc = "fwd_wait"
    /\ LET id == Get(calls[c].request, "id", JNull) IN
       \/ \E body \in PlainReplies(id) :
             Finish(c, Append(calls[c].trace, Ev("returned", JNull, body)), Returned(body))
       \/ \E f \in PostFailures : Finish(c, FailedTrace(calls[c].trace, f), Raised(f.msg))
    /\ UNCHANGED <<strings, python, proxy, deviceKeys, tokenStore, keyFile, agentKey, codec, loop, tasks>>

\* get_backend_tools: the tools of the backend's answer to tools/list
BackendTools(resp) ==
    LET r == Get(resp, "result", JNull)
        result == IF Truthy(r) THEN r ELSE resp
    IN  \* resp.get raises for anything but a dict, and the handler takes it
        \* for no tools
        IF ~IsDict(resp) THEN JList(<<>>)
        ELSE IF IsDict(result) /\ HasKey(result, "tools") THEN Get(result, "tools", JNull)
        ELSE IF HasKey(resp, "tools") THEN Get(resp, "tools", JNull)
        ELSE JList(<<>>)

\* A filter that drops only the tool named by the bare suffix.
IsEncryptedVariant_Exact(tool) == Get(tool, "name", Str("")).s = S("_e2ee")

\* tool.get("name", "").endswith("_e2ee")
IsEncryptedVariant(tool) == EndsWith(Get(tool, "name", Str("")).s, S("_e2ee"))

\* handle_tools_list, given the tools get_backend_tools returned: the tools
\* without the '_e2ee' variants, or the error of the first item that is no
\* dict or whose name is no str.
handle_tools_list(request, backend_tools) ==
    LET id == Get(request, "id", JNull)
        failed(e) == ErrorResponse(Str("2.0"), id, 0 - 32603, S("Failed to get tools: ") \o e)
        IsPlain(tool) == ~IsEncryptedVariant(tool)
        HasName(tool) == IsDict(tool) /\ IsStr(Get(tool, "name", Str("")))
        NoAttribute(v, attr) == S("'") \o TypeName(v) \o S("' object has no attribute '") \o attr \o S("'")
        Error(tool) ==
            IF ~IsDict(tool) THEN NoAttribute(tool, S("get"))
            ELSE NoAttribute(Get(tool, "name", Str("")), S("endswith"))
        \* for tool in backend_tools
        Filter(items) ==
            LET bad == {i \in 1..Len(items) : ~HasName(items[i])}
            IN  IF bad = {}
                THEN ResultResponse(Str("2.0"), id,
                         Dict(<< <<"tools", JList(SelectSeq(items, IsPlain))>> >>))
                ELSE failed(Error(items[CHOOSE i \in bad : \A j \in bad : i <= j]))
    IN  IF IsList(backend_tools) THEN Filter(backend_tools.kids)
        ELSE IF IsDict(backend_tools)
             THEN Filter([i \in 1..Len(backend_tools.kids) |-> JStr(backend_tools.kids[i].s)])
        ELSE IF IsStr(backend_tools)
             THEN Filter([i \in 1..Len(backend_tools.s) |-> JStr(<<backend_tools.s[i]>>)])
        ELSE failed(S("'") \o TypeName(backend_tools) \o S("' object is not iterable"))

\* The backend's answer to tools/list arrives.
PHListReturn(c) ==
    /\ calls[c].pc = "list_wait"
    /\ LET id == Get(calls[c].request, "id", JNull) IN
       \/ \E catalog \in Catalogs :
             LET resp == ResultResponse(Str("2.0"), JNum(1), Dict(<< <<"tools", JList(catalog)>> >>))
             IN  Finish(c, Append(calls[c].trace, Ev("returned", JNull, resp)),
                        Returned(handle_tools_list(calls[c].request, BackendTools(resp))))
       \/ \E f \in PostFailures :
             Finish(c, FailedTrace(calls[c].trace, f),
                    Returned(ErrorResponse(Str("2.0"), id, 0 - 32603,
                               S("Failed to get tools: ") \o f.msg)))
    /\ UNCHANGED <<strings, python, proxy, deviceKeys, tokenStore, keyFile, agentKey, codec, loop, tasks>>

\* A request that carries the sealed payload under the plaintext tool name.
E2eeRequest_PlainName(id, encrypted_payload) ==
    Dict(<< <<"jsonrpc", Str("2.0")>>, <<"id", id>>, <<"method", Str("tools/call")>>,
            <<"params", Dict(<< <<"name", Str("request_human_input")>>,
                                <<"arguments", Dict(<< <<"encrypted_payload", encrypted_payload>> >>)>> >>)>> >>)

\* The '_e2ee' request handle_request_human_input builds.
E2eeRequest(id, encrypted_payload) ==
    Dict(<< <<"jsonrpc", Str("2.0")>>, <<"id", id>>, <<"method", Str("tools/call")>>,
            <<"params", Dict(<< <<"name", Str("request_human_input_e2ee")>>,
                                <<"arguments", Dict(<< <<"encrypted_payload", encrypted_payload>> >>)>> >>)>> >>)

ProcessFailed(id, e) ==
    Returned(ErrorResponse(Str("2.0"), id, 0 - 32603, S("Failed to process encrypted request: ") \o e))

\* A handler that falls back to forwarding the request as it came.
NoDeviceKeys_Fallback(c, id, fetched) ==
    calls' = [calls EXCEPT ![c].pc = "fwd_wait",
                ![c].trace = fetched \o ForwardTrace(calls[c].request)]

\* handle_request_human_input when get_device_public_keys gave no key: the
\* call ends with an error, nothing is forwarded.
NoDeviceKeys(c, id, fetched) ==
    Finish(c, fetched, Returned(ErrorResponse(Str("2.0"), id, 0 - 32600,
                                  S("No device public keys available"))))

\* handle_request_human_input, from the return of get_device_public_keys
\* with the given keys to the suspension in forward_to_backend.
SealAndForward(c, keys, nonce) ==
    LET \* forward_to_backend(e2ee_request)
        Forward(id, e2ee_request, trace) ==
            IF ~ForwardRaises(e2ee_request).ok
            THEN Finish(c, trace, ProcessFailed(id, ForwardRaises(e2ee_request).err))
            ELSE calls' = [calls EXCEPT ![c].pc = "e2ee_wait", ![c].keys = keys, ![c].trace = trace]
        \* encrypt_arguments(arguments, device_public_keys) gave enc
        Sealed(id, sealing, enc) ==
            IF ~enc.ok THEN Finish(c, sealing, ProcessFailed(id, enc.err))
            ELSE Forward(id, E2eeRequest(id, enc.v),
                         Append(sealing, Ev("sealed", RecipientKey(keys).v, enc.v))
                             \o ForwardTrace(E2eeRequest(id, enc.v)))
        Fetched(request, id, fetched) ==
            IF ~Truthy(keys) THEN NoDeviceKeys(c, id, fetched)
            ELSE Sealed(id, Append(fetched, Ev("seal", RecipientKey(keys).v, JNull)),
                        encrypt_arguments(AgentPrivateKey,
                            Get(Get(request, "params", JObj(<<>>)), "arguments", JObj(<<>>)),
                            keys, nonce))
    IN  Fetched(calls[c].request, Get(calls[c].request, "id", JNull),
                Append(calls[c].trace, Ev("fetched", JNull, keys)))

\* get_device_public_keys returns: result.get("public_keys", []) of a 200
\* answer, an exception for any other status.
PHKeysReturn(c) ==
    /\ proxy = "PH"
    /\ calls[c].pc = "keys_wait"
    /\ \/ \E nonce \in Nonces :
             SealAndForward(c, Get(Dict(<< <<"public_keys", deviceKeys>> >>), "public_keys", JList(<<>>)), nonce)
       \/ Finish(c, calls[c].trace,
                 ProcessFailed(Get(calls[c].request, "id", JNull),
                               S("Failed to get device public keys: 500 - ")))
    /\ UNCHANGED <<strings, python, proxy, deviceKeys, tokenStore, keyFile, agentKey, codec, loop, tasks>>

\* The response handle_request_human_input returns once
\* process_encrypted_response has given decrypted.
Unwrap(decrypted) ==
    LET result == Get(decrypted, "result", JNull)
        content == Get(result, "content", JNull)
    IN  IF IsDict(result) /\ IsList(content) /\ content.kids # <<>>
           /\ IsDict(content.kids[1]) /\ HasKey(content.kids[1], "text")
        THEN ResultResponse(Get(decrypted, "jsonrpc", Str("2.0")), Get(decrypted, "id", JNull),
                            Get(content.kids[1], "text", JNull))
        ELSE decrypted

\* A handler that opens with the first key the backend holds now.
ResponseKey_Current(c) == IF deviceKeys.kids # <<>> THEN deviceKeys.kids[1] ELSE JNull

\* device_public_keys[0] of the list the call fetched: the key the call
\* opens the response with
ResponseKey(c) == calls[c].keys.kids[1]

\* handle_request_human_input, from the return of forward_to_backend with
\* encrypted_response to its end.
handle_request_human_input_finish(c, encrypted_response) ==
    LET returned == Append(calls[c].trace, Ev("returned", JNull, encrypted_response))
        device_public_key == ResponseKey(c)
        \* agent_priv_b64 of the load_agent_keypair() in process_encrypted_response
        Opener(kp) == IF kp.ok THEN kp.v.kids[2] ELSE JNull
        id == Get(calls[c].request, "id", JNull)
    IN  \* "result" in encrypted_response, for a response that is no dict: a
        \* TypeError, or the AttributeError of process_encrypted_response
        IF ~IsDict(encrypted_response) /\ ~IsList(encrypted_response) /\ ~IsStr(encrypted_response)
        THEN Finish(c, returned,
                    ProcessFailed(id, S("argument of type '") \o TypeName(encrypted_response)
                                      \o S("' is not iterable")))
        ELSE IF ~IsDict(encrypted_response) /\ HasKey(encrypted_response, "result")
             THEN Finish(c, Append(returned, Ev("open", device_public_key,
                                                Opener(LoadAgentKeypair(keyFile)))),
                         ProcessFailed(id, S("'") \o TypeName(encrypted_response)
                                           \o S("' object has no attribute 'get'")))
        ELSE IF HasKey(encrypted_response, "result")
        THEN Finish(c, Append(returned, Ev("open", device_public_key,
                                           Opener(LoadAgentKeypair(keyFile)))),
                    Returned(Unwrap(process_encrypted_response(keyFile, encrypted_response,
                                                               device_public_key))))
        ELSE Finish(c, returned, Returned(encrypted_response))

\* The backend's answer to the '_e2ee' call arrives.
PHE2eeReturn(c) ==
    /\ proxy = "PH"
    /\ calls[c].pc = "e2ee_wait"
    /\ LET id == Get(calls[c].request, "id", JNull) IN
       \/ \E body \in E2eeReplies(id) : handle_request_human_input_finish(c, body)
       \/ \E f \in PostFailures : Finish(c, FailedTrace(calls[c].trace, f), ProcessFailed(id, f.msg))
    /\ UNCHANGED <<strings, python, proxy, deviceKeys, tokenStore, keyFile, agentKey, codec, loop, tasks>>

\* ------------------------------------------------------------------------
\* proxy_handler_v2.py: the FastMCP proxy server
\* ------------------------------------------------------------------------

\* A Python object that is neither a dict nor a str: the CallToolResult of
\* the MCP client, holding content blocks.
CallToolResult(blocks) == [t |-> "CallToolResult", s |-> <<>>, kids |-> blocks]

\* The tools create_fastmcp_proxy_server registers with @mcp.tool().
LocalTools == <<ToolDescriptor(S("request_human_input")), ToolDescriptor(S("notify_human"))>>

\* What a caller of the FastMCP server sends: a tool call by name with the
\* tool's parameters, or "list_tools".
FMRequests ==
    { Str("list_tools"),
      Dict(<< <<"name", Str("request_human_input")>>,
              <<"arguments", Dict(<< <<"prompt", Str("Deploy?")>>,
                                     <<"choices", JList(<<Str("Yes"), Str("No")>>)>> >>)>> >>),
      Dict(<< <<"name", Str("notify_human")>>,
              <<"arguments", Dict(<< <<"message", Str("Build done")>> >>)>> >>) }

\* The arguments the tools seal.  notify_human: {"message": message}.
\* request_human_input: {"prompt": prompt}, and "choices" with it unless
\* choices is None, which it is when the caller gave none.
SealedArguments(name, params) ==
    IF name = Str("notify_human")
    THEN Dict(<< <<"message", Get(params, "message", JNull)>> >>)
    ELSE IF Get(params, "choices", JNull) # JNull
         THEN Dict(<< <<"prompt", Get(params, "prompt", JNull)>>,
                      <<"choices", Get(params, "choices", JNull)>> >>)
    ELSE Dict(<< <<"prompt", Get(params, "prompt", JNull)>> >>)

\* encrypt_arguments of proxy_handler_v2
encrypt_arguments_v2(arguments, device_public_keys, agent_private_key, nonce) ==
    encrypt_arguments(agent_private_key, arguments, device_public_keys, nonce)

\* decrypt_response of proxy_handler_v2
decrypt_response_v2(encrypted_data, device_public_key, agent_private_key) ==
    LET pre == S("Failed to decrypt response: ")
        invalid == Raise(pre \o S("Invalid encrypted response format"))
        \* v.get(...) of a value that is no dict
        NoGet(v) == Raise(pre \o S("'") \o TypeName(v) \o S("' object has no attribute 'get'"))
        \* content[0].get('type') == 'text', content[0]['text']
        Block(block) ==
            IF ~IsDict(block) THEN NoGet(block)
            ELSE IF Get(block, "type", JNull) # Str("text") THEN invalid
            ELSE IF ~HasKey(block, "text") THEN Raise(pre \o S("'text'"))
            ELSE decrypt_response(agent_private_key, Get(block, "text", JNull),
                                  device_public_key)
        \* content and len(content) > 0 and content[0]...
        Content(content) ==
            IF ~Truthy(content) THEN invalid
            ELSE IF IsList(content) THEN Block(content.kids[1])
            ELSE IF IsStr(content) THEN NoGet(content)
            ELSE IF IsDict(content) THEN Raise(pre \o S("0"))
            ELSE Raise(pre \o S("object of type '") \o TypeName(content) \o S("' has no len()"))
        \* encrypted_data['result'].get('content', [])
        Result(result) ==
            IF ~IsDict(result) THEN NoGet(result)
            ELSE Content(Get(result, "content", JList(<<>>)))
    IN  IF IsDict(encrypted_data) /\ HasKey(encrypted_data, "result")
        THEN Result(Get(encrypted_data, "result", JNull))
        ELSE IF IsStr(encrypted_data)
             THEN decrypt_response(agent_private_key, encrypted_data, device_public_key)
        ELSE Raise(pre \o S("Unknown encrypted response format"))

\* The message of the exception a sensitive tool raises for a failure e.
ToolFailure(name, e) ==
    IF name = Str("notify_human") THEN S("Failed to send encrypted notification: ") \o e
    ELSE S("Failed to process encrypted request: ") \o e

\* A caller calls the FastMCP server as call c: list_tools answers from the
\* server's registry; a sensitive tool runs to get_device_public_keys.
FMStart(c) ==
    /\ proxy = "FM"
    /\ IsNextCall(c)
    /\ \E r \in FMRequests :
         LET start == [calls EXCEPT ![c].request = r] IN
         IF r = Str("list_tools")
         THEN calls' = [start EXCEPT ![c].pc = "done", ![c].out = Returned(JList(LocalTools))]
         ELSE IF is_using_oauth
              THEN calls' = [start EXCEPT ![c].pc = "keys_wait",
                               ![c].trace = <<Ev("fetch", JNull, JNull), Ev("get", JNull, JNull)>>]
              ELSE calls' = [start EXCEPT ![c].pc = "done",
                               ![c].trace = <<Ev("fetch", JNull, JNull)>>,
                               ![c].out = Raised(ToolFailure(Get(r, "name", JNull),
                                            S("Device key retrieval requires OAuth authentication")))]
    /\ UNCHANGED <<strings, python, proxy, deviceKeys, tokenStore, keyFile, agentKey, codec, loop, tasks>>

\* request_human_input and notify_human, from the return of
\* get_device_public_keys to the suspension in backend_client.call_tool.
SealAndCall(c, keys, nonce) ==
    LET \* backend_client.call_tool(name + "_e2ee", {"encrypted_payload": ...})
        Call(name, sealed, call) ==
            IF ~is_using_oauth
            THEN Finish(c, Append(sealed, Ev("gateway", JNull, call)),
                        Raised(ToolFailure(name, S("Backend MCP client requires OAuth authentication"))))
            ELSE IF ~Truthy(get_current_oauth_token)
            THEN Finish(c, Append(sealed, Ev("gateway", JNull, call)),
                        Raised(ToolFailure(name, S("No OAuth token available for backend connection"))))
            ELSE calls' = [calls EXCEPT ![c].pc = "e2ee_wait", ![c].keys = keys,
                             ![c].trace = sealed \o <<Ev("gateway", JNull, call),
                                                      Ev("post", JNull, call)>>]
        \* encrypt_arguments(arguments, device_keys, agent_private_key) gave enc
        Sealed(name, sealing, enc) ==
            IF ~enc.ok THEN Finish(c, sealing, Raised(ToolFailure(name, enc.err)))
            ELSE Call(name, Append(sealing, Ev("sealed", RecipientKey(keys).v, enc.v)),
                      Dict(<< <<"name", JStr(name.s \o S("_e2ee"))>>,
                              <<"arguments", Dict(<< <<"encrypted_payload", enc.v>> >>)>> >>))
        Fetched(name, fetched) ==
            IF ~Truthy(keys)
            THEN Finish(c, fetched, Raised(ToolFailure(name,
                                      S("No device public keys available for encryption"))))
            ELSE Sealed(name, Append(fetched, Ev("seal", RecipientKey(keys).v, JNull)),
                        encrypt_arguments_v2(SealedArguments(name, Get(calls[c].request, "arguments", JNull)),
                                             keys, AgentPrivateKey, nonce))
    IN  Fetched(Get(calls[c].request, "name", JNull),
                Append(calls[c].trace, Ev("fetched", JNull, keys)))

FMKeysReturn(c) ==
    /\ proxy = "FM"
    /\ calls[c].pc = "keys_wait"
    /\ \/ \E nonce \in Nonces :
             SealAndCall(c, Get(Dict(<< <<"public_keys", deviceKeys>> >>), "public_keys", JList(<<>>)), nonce)
       \/ Finish(c, calls[c].trace,
                 Raised(ToolFailure(Get(calls[c].request, "name", JNull),
                                    S("Failed to get device public keys: 500 - "))))
    /\ UNCHANGED <<strings, python, proxy, deviceKeys, tokenStore, keyFile, agentKey, codec, loop, tasks>>

\* What backend_client.call_tool may return for an '_e2ee' call: as the
\* tests of the server give it, the sealed text or a dict holding it; as
\* the MCP client gives it, a CallToolResult.
CallToolReplies ==
    { SealedByD1,
      SealedByD2,
      Dict(<< <<"result", ToolResult(SealedByD1)>> >>),
      CallToolResult(<<TextBlock(SealedByD1.s)>>) }

\* How client.call_tool of BackendMCPClient.call_tool may fail, with the
\* str() of what the MCP client raises: an error answer of the server, the
\* timeout of the request, a connection that cannot be made.
CallFailures ==
    { [kind |-> "status", msg |-> S("Server error")],
      [kind |-> "timeout", msg |-> S("Timed out while waiting for response to ClientRequest")],
      [kind |-> "transport", msg |-> S("Client failed to connect: All connection attempts failed")] }

\* backend_client.call_tool returns or raises.
FMCallReturn(c) ==
    /\ proxy = "FM"
    /\ calls[c].pc = "e2ee_wait"
    /\ LET name == Get(calls[c].request, "name", JNull) IN
       \/ \E reply \in CallToolReplies :
            LET returned == Append(calls[c].trace, Ev("returned", JNull, reply))
                \* decrypt_response(encrypted_response, device_key, agent_private_key)
                Opened(device_key, opened) ==
                    Finish(c, Append(returned, Ev("open", device_key, agentKey.kids[2])),
                           IF opened.ok THEN Returned(opened.v)
                           ELSE Raised(ToolFailure(name, opened.err)))
            IN  IF name = Str("notify_human")
                THEN Finish(c, returned, Returned(Str("Notification sent successfully")))
                ELSE Opened(ResponseKey(c), decrypt_response_v2(reply, ResponseKey(c), AgentPrivateKey))
       \/ \E f \in CallFailures :
             Finish(c, FailedTrace(calls[c].trace, f),
                    Raised(ToolFailure(name, S("Failed to call tool ") \o name.s \o S("_e2ee")
                                             \o S(": ") \o f.msg)))
    /\ UNCHANGED <<strings, python, proxy, deviceKeys, tokenStore, keyFile, agentKey, codec, loop, tasks>>

\* ------------------------------------------------------------------------
\* proxy_handler.py: start_proxy_loop, reading request lines from stdin and
\* writing response lines to stdout
\* ------------------------------------------------------------------------

\* The most lines the caller writes before it closes its end.
MaxLines == 3

\* The loop is not running. Once it runs, io holds its reads of stdin and
\* its writes to stdout, in the order in which they happened: a line read
\* ("read"), a readline() that raised ("read_error"), a line written
\* ("write"), a print that raised ("write_error").
LoopOff == [pc |-> "off", cur |-> 0, io |-> <<>>]

\* line.strip()
Strip(line) ==
    LET \* str.isspace: the white space of Unicode
        IsSpace(ch) ==
            ch \in {9, 10, 11, 12, 13, 28, 29, 30, 31, 32, 133, 160, 5760, 8232, 8233,
                    8239, 8287, 12288} \cup (8192..8202)
        RECURSIVE First(_), Last(_)
        First(i) == IF i <= Len(line) /\ IsSpace(line[i]) THEN First(i + 1) ELSE i
        Last(i) == IF i >= 1 /\ IsSpace(line[i]) THEN Last(i - 1) ELSE i
    IN  SubSeq(line, First(1), Last(Len(line)))

\* The lines readline() may return while call c is the next to arrive: a
\* request line of the caller as it is, or with white space around it, or
\* holding a number that is no finite number (NaN, Infinity), which
\* json.loads accepts, or the byte 255, which is no UTF-8, as stdin gives it
\* where it decodes with surrogateescape (the C locale).
StdinLines(c) ==
    { line \o <<10>> : line \in PHLines(c) }
    \cup { <<32>> \o Dumps(ToolsCall(JNum(10 + c), S("other_tool"), OtherArguments)) \o <<32, 13, 10>>,
           Dumps(ToolsCall(JNum(10 + c), S("other_tool"),
                           Dict(<< <<"ratio", JFloat(S("nan"))>> >>))) \o <<10>>,
           Dumps(ToolsCall(JFloat(S("inf")), S("request_human_input"), RhiArguments)) \o <<10>>,
           <<56575, 10>> }

\* A loop that prints the response of a request that raised twice: in the
\* try block and in the except branch.
ResponseLine_Twice(out) ==
    LET line == Dumps(IF out.kind = "returned" THEN out.v
                      ELSE ErrorResponse(Str("2.0"), JNull, 0 - 32603,
                                         S("Internal error: ") \o out.err)) \o <<10>>
    IN  IF out.kind = "raised" THEN line \o line ELSE line

\* The line the loop prints for what handle_mcp_request returned or raised:
\* json.dumps of the response, or of the error response of the except branch.
ResponseLine(out) ==
    Dumps(IF out.kind = "returned" THEN out.v
          ELSE ErrorResponse(Str("2.0"), JNull, 0 - 32603, S("Internal error: ") \o out.err))
    \o <<10>>

\* sys.stdin.readline() in the executor: '' at the end of the stream ends
\* the loop, a line of white space is skipped, any other line is handed to
\* handle_mcp_request.  A line whose bytes are no UTF-8 makes readline()
\* raise UnicodeDecodeError where stdin decodes strictly: the exception is
\* outside the try of the request, the outer handler logs it and raises it
\* again, and the loop ends with it.
LoopRead ==
    /\ loop.pc = "reading"
    /\ \/ /\ loop' = [loop EXCEPT !.pc = "exited",
                        !.io = Append(@, [op |-> "read", text |-> <<>>])]
          /\ UNCHANGED calls
       \/ /\ loop' = [loop EXCEPT !.pc = "raised",
                        !.io = Append(@, [op |-> "read_error", text |-> <<>>])]
          /\ UNCHANGED calls
       \/ /\ Len(SelectSeq(loop.io, LAMBDA e : e.op = "read")) < MaxLines
          /\ \E line \in { <<10>>, <<32, 9, 13, 10>> } :
                loop' = [loop EXCEPT !.io = Append(@, [op |-> "read", text |-> line])]
          /\ UNCHANGED calls
       \/ /\ Len(SelectSeq(loop.io, LAMBDA e : e.op = "read")) < MaxLines
          /\ \E c \in CallIds :
                /\ IsNextCall(c)
                /\ \E line \in StdinLines(c) :
                      /\ handle_mcp_request(c, Strip(line))
                      /\ loop' = [loop EXCEPT !.pc = "handling", !.cur = c,
                                    !.io = Append(@, [op |-> "read", text |-> line])]
    /\ UNCHANGED <<strings, python, proxy, deviceKeys, tokenStore, keyFile, agentKey, codec, tasks>>

\* handle_mcp_request has returned or raised: the loop prints one line and
\* reads on.  When the reader of stdout is gone print raises (BrokenPipeError):
\* raised in the try block it is caught by the except branch, whose own
\* print raises again; raised in the except branch it is outside every
\* try of the request.  Either way the outer handler logs it and raises it
\* again, nothing is written and the loop ends with the exception.
LoopWrite ==
    /\ loop.pc = "handling"
    /\ calls[loop.cur].pc = "done"
    /\ \/ loop' = [loop EXCEPT !.pc = "reading",
                     !.io = Append(@, [op |-> "write",
                                       text |-> ResponseLine(calls[loop.cur].out)])]
       \/ loop' = [loop EXCEPT !.pc = "raised",
                     !.io = Append(@, [op |-> "write_error", text |-> <<>>])]
    /\ UNCHANGED <<strings, python, proxy, calls, deviceKeys, tokenStore, keyFile, agentKey, codec, tasks>>

\* ------------------------------------------------------------------------
\* The environment
\* ------------------------------------------------------------------------

\* A device registers or unregisters with the backend.
DeviceListChange ==
    /\ \E keys \in DeviceKeyLists : keys # deviceKeys /\ deviceKeys' = keys
    /\ UNCHANGED <<strings, python, proxy, calls, tokenStore, keyFile, agentKey, codec, loop, tasks>>

\* The token file changes under the proxy, at any time: a login saves a
\* token (save_oauth_token), a logout removes the file
\* (delete_oauth_tokens), a token without 'access_token' is stored.  The
\* proxy reads the file anew at every is_using_oauth() and
\* get_current_oauth_token(); a file that changes between the two reads of
\* one request gives what one of the three files gives.
TokenFileChange ==
    /\ \E store \in {"valid", "absent", "no_access_token"} :
          store # tokenStore /\ tokenStore' = store
    /\ UNCHANGED <<strings, python, proxy, calls, deviceKeys, keyFile, agentKey, codec, loop, tasks>>

\* Another process saves a different key pair to the agent key file
\* (save_agent_keypair) while an '_e2ee' invocation of ProxyHandler is in
\* flight; ProxyHandler reads the file when the response arrives (the
\* FastMCP server reads it once, before it serves).
\* keys_path.write_text(...) opens the file for writing, which empties it:
\* this is the first step.
KeyFileTruncate ==
    /\ proxy = "PH"
    /\ \E c \in CallIds : calls[c].pc = "e2ee_wait"
    /\ keyFile.text = KeyFileText(PublicText(1), PrivateText(1))
    /\ keyFile' = [keyFile EXCEPT !.text = <<>>]
    /\ UNCHANGED <<strings, python, proxy, calls, deviceKeys, tokenStore, agentKey, codec, loop, tasks>>

\* The second step: the text of the new pair is written and the file
\* closed, and keys_path.chmod(0o600) sets the mode.
KeyFileWrite ==
    /\ keyFile.exists
    /\ keyFile.text = <<>>
    /\ keyFile' = [keyFile EXCEPT !.text = KeyFileText(PublicText(2), PrivateText(2)),
                                  !.mode = <<6, 0, 0>>]
    /\ UNCHANGED <<strings, python, proxy, calls, deviceKeys, tokenStore, agentKey, codec, loop, tasks>>

\* ------------------------------------------------------------------------
\* The codec on its own: arguments are sealed for a device, the device
\* opens them and seals its answer, the answer crosses the backend, the
\* agent opens it
\* ------------------------------------------------------------------------

\* The codec is not in use.
CodecOff ==
    [pc |-> "off", device |-> 0, keys |-> JNull, m |-> JNull, nonce |-> 0,
     payload |-> Raise(<<>>), delivered |-> Raise(<<>>), text |-> <<>>, sealer |-> 0,
     fault |-> "none", wire |-> JNull, opened |-> Raise(<<>>), processed |-> JNull]

\* The argument mappings a caller may pass: none, those of
\* request_human_input, texts with characters json.dumps escapes or UTF-8
\* encodes in several bytes, nested values of every JSON type.
ArgumentMappings ==
    { JObj(<<>>),
      RhiArguments,
      Dict(<< <<"message", JStr(<<67, 97, 102, 233, 32, 9749, 32, 128512>>)>>,
              <<"prompt", JStr(<<34, 113, 34, 32, 92, 32, 10, 9, 47>>)>> >>),
      Dict(<< <<"n", JNum(0 - 3)>>, <<"param", JBool(TRUE)>>, <<"value", JNull>>,
              <<"choices", JList(<<JNum(1), JList(<<Str("")>>), JObj(<<>>)>>)>> >>),
      Dict(<< <<"timeout", JFloat(S("2.5"))>>, <<"x", JFloat(S("1e+16"))>>,
              <<"y", JFloat(S("-0.0"))>>, <<"z", JFloat(S("1e-05"))>> >>) }

\* The answers a human may give.
ResponseTexts == { S("Yes"), <<79, 75, 32, 233>> }

\* The nonces Box.encrypt may draw, on either side.
CodecNonces == {0, 201}

\* The device's side of the protocol: it decodes the payload, opens it with
\* its private key and the agent's public key, and parses the arguments.
DeviceOpen(device, agent_public_key, payload) ==
    LET Parsed(j) == IF ~j.ok THEN Raise(S("DecryptionError")) ELSE Ok(j.v)
        Text(u) == IF ~u.ok THEN Raise(S("DecryptionError")) ELSE Parsed(Loads(u.s))
        Opened(o) == IF ~o.ok THEN Raise(S("DecryptionError")) ELSE Text(Utf8Decode(o.b))
        Boxed(k, d) == IF k = <<>> THEN Raise(S("DecryptionError")) ELSE Opened(BoxDecrypt(k, d.b))
        Decoded(d, pk) ==
            IF ~d.ok \/ ~pk.ok THEN Raise(S("DecryptionError"))
            ELSE Boxed(Beforenm(PrivateBytes(device), pk.b), d)
    IN  Decoded(B64Decode(payload), PublicKey(agent_public_key))

\* The other device of the account.
OtherDevice(d) == IF d = 3 THEN 4 ELSE 3

\* encrypt_arguments is called with the mapping and the key list.
CodecSeal ==
    /\ codec.pc = "start"
    /\ codec' = [codec EXCEPT !.pc = "sealed",
                   !.payload = encrypt_arguments(AgentPrivateKey, codec.m, codec.keys, codec.nonce)]
    /\ UNCHANGED <<strings, python, proxy, calls, deviceKeys, tokenStore, keyFile, agentKey, loop, tasks>>

\* The device opens the payload.
CodecDeviceOpen ==
    /\ codec.pc = "sealed"
    /\ codec.payload.ok
    /\ codec' = [codec EXCEPT !.pc = "delivered",
                   !.delivered = DeviceOpen(codec.device, agentKey.kids[1],
                                            codec.payload.v)]
    /\ UNCHANGED <<strings, python, proxy, calls, deviceKeys, tokenStore, keyFile, agentKey, loop, tasks>>

\* A device seals the human's answer for the agent: the device the
\* arguments were sealed for, or the other device of the account.
CodecDeviceReply ==
    /\ codec.pc = "delivered"
    /\ \E sealer \in {codec.device, OtherDevice(codec.device)}, text \in ResponseTexts :
          codec' = [codec EXCEPT !.pc = "replied", !.sealer = sealer, !.text = text,
                      !.wire = DeviceSeal(sealer, PublicKey(agentKey.kids[1]).b, codec.nonce, text)]
    /\ UNCHANGED <<strings, python, proxy, calls, deviceKeys, tokenStore, keyFile, agentKey, loop, tasks>>

\* The texts that arrive in place of a sealed payload w that are not its
\* base64 text: text that is no base64 at all, w cut short, w with a
\* character from outside the alphabet put in, w twice over.
BrokenEncodings(w) ==
    { Str("not_valid_base64!!!"),
      JStr(w.s \o w.s),
      JStr(SubSeq(w.s, 1, Len(w.s) - 1)),
      JStr(SubSeq(w.s, 1, Len(w.s) - 3)),
      InsertChar(w, 1, 33),
      InsertChar(w, 5, 10),
      InsertChar(w, Len(w.s) + 1, 32) }

\* The sealed answer crosses the backend: it arrives as it was sent, with
\* one byte altered (the first or the last byte of the nonce, of the tag or
\* of the body), or with its text encoding broken.
CodecTransit ==
    /\ codec.pc = "replied"
    /\ \/ codec' = [codec EXCEPT !.pc = "arrived"]
       \/ \E i \in {1, 24, 25, 40, 41, Len(B64Decode(codec.wire).b)}, delta \in {1, 128} :
             codec' = [codec EXCEPT !.pc = "arrived", !.fault = "altered",
                         !.wire = TamperByte(codec.wire, i, delta)]
       \/ \E w \in BrokenEncodings(codec.wire) :
             codec' = [codec EXCEPT !.pc = "arrived", !.fault = "encoding", !.wire = w]
    /\ UNCHANGED <<strings, python, proxy, calls, deviceKeys, tokenStore, keyFile, agentKey, loop, tasks>>

\* The agent opens what arrived with the key of the device it sealed for:
\* by decrypt_response, and by process_encrypted_response on the backend's
\* response carrying it.
CodecOpen ==
    /\ codec.pc = "arrived"
    /\ LET device_public_key == JStr(PublicText(codec.device)) IN
       codec' = [codec EXCEPT !.pc = "opened",
                   !.opened = decrypt_response(AgentPrivateKey, codec.wire, device_public_key),
                   !.processed = process_encrypted_response(keyFile,
                                     ResultResponse(Str("2.0"), JNum(1), ToolResult(codec.wire)),
                                     device_public_key)]
    /\ UNCHANGED <<strings, python, proxy, calls, deviceKeys, tokenStore, keyFile, agentKey, loop, tasks>>

\* ------------------------------------------------------------------------
\* crypto.py, auth.py and the proxy modules: operations on their own, in a
\* process with a umask, on the agent key file, its directory and the OAuth
\* token file
\* ------------------------------------------------------------------------

\* The operations of a process: coroutines of one event loop, which runs
\* one of them at a time and lets another run where one awaits an answer
\* of the backend.  Operation t is the t-th that started.
MaxTasks == 2

TaskIds == 1..MaxTasks

\* No operation.  fn and pc tell the operation and its position, n its
\* number, arg the input, before the key file as the operation found it,
\* after the key file as it was when the operation ended, pair the key
\* pair it generated, trace what it did to the outside, out its result.
TaskOff ==
    [fn |-> "off", pc |-> "off", n |-> 0, umask |-> <<>>, arg |-> JNull,
     before |-> [exists |-> FALSE, text |-> <<>>, mode |-> <<>>, dir |-> <<>>],
     after |-> [exists |-> FALSE, text |-> <<>>, mode |-> <<>>, dir |-> <<>>],
     pair |-> 0, trace |-> <<>>, out |-> Pending]

\* The mode a file or directory gets when it is created with the requested
\* mode under the umask of the process: requested & ~umask.
Masked(requested, umask) ==
    LET Cleared(d, m) ==
            (IF d % 2 = 1 /\ m % 2 = 0 THEN 1 ELSE 0)
            + (IF (d \div 2) % 2 = 1 /\ (m \div 2) % 2 = 0 THEN 2 ELSE 0)
            + (IF (d \div 4) % 2 = 1 /\ (m \div 4) % 2 = 0 THEN 4 ELSE 0)
    IN  [i \in 1..3 |-> Cleared(requested[i], umask[i])]

\* get_agent_keys_path: config_dir.mkdir(parents=True, exist_ok=True) makes
\* the directory of the key file if there is none.
get_agent_keys_path(file, umask) ==
    IF file.dir = <<>> THEN [file EXCEPT !.dir = Masked(<<7, 7, 7>>, umask)] ELSE file

\* The key files an operation may find: no directory, no file, a file
\* save_agent_keypair wrote, and files that are not valid JSON, lack a key
\* field, hold a text that is no key, hold a JSON list.
KeyFiles ==
    LET File(text) == [exists |-> TRUE, text |-> text, mode |-> <<6, 0, 0>>, dir |-> <<7, 0, 0>>]
    IN  { [exists |-> FALSE, text |-> <<>>, mode |-> <<>>, dir |-> <<>>],
          [exists |-> FALSE, text |-> <<>>, mode |-> <<>>, dir |-> <<7, 5, 5>>],
          File(KeyFileText(PublicText(1), PrivateText(1))),
          File(S("{invalid json")),
          File(Dumps(Dict(<< <<"private_key", JStr(PrivateText(1))>> >>))),
          File(KeyFileText(PublicText(1), S("not_valid_base64!!!"))),
          File(Dumps(JList(<<JNum(1)>>))) }

\* The event loop can run operation t: every other operation has not
\* started, has ended, or awaits an answer of the backend.
LoopFree(t) ==
    \A u \in TaskIds \ {t} : tasks[u].pc \in {"idle", "done", "register_wait", "keys_wait"}

\* Operation t may start: the operations before it have started, and the
\* event loop can run it.
CanStart(t) ==
    /\ tasks[t].pc = "idle"
    /\ \A u \in TaskIds : u < t => tasks[u].pc # "idle"
    /\ LoopFree(t)

\* The operation fn starts on arg as operation t.
NewTask(t, fn, arg) ==
    [TaskOff EXCEPT !.fn = fn, !.pc = "running", !.n = t, !.umask = tasks[t].umask,
                    !.arg = arg, !.before = keyFile]

\* The operation ends with out and leaves the key file as file.
EndTask(task, out, file) == [task EXCEPT !.pc = "done", !.out = out, !.after = file]

\* An ensure_agent_keypair that makes a new pair whatever load_agent_keypair
\* raised or returned.
IsFileNotFound_Always(kp) == TRUE

\* except FileNotFoundError: of ensure_agent_keypair
IsFileNotFound(kp) == ~kp.ok /\ kp.err = S("Agent key file not found")

\* ensure_agent_keypair, up to the return of the stored pair, the exception
\* that load_agent_keypair raised, or the decision to make a new pair.
EnsureStart(t) ==
    /\ CanStart(t)
    /\ LET file == get_agent_keys_path(keyFile, tasks[t].umask)
           Loaded(task, kp) ==
               IF IsFileNotFound(kp) THEN [task EXCEPT !.pc = "save"]
               ELSE IF kp.ok THEN EndTask(task, Returned(kp.v), file)
               ELSE EndTask(task, Raised(kp.err), file)
       IN  /\ keyFile' = file
           /\ tasks' = [tasks EXCEPT ![t] = Loaded(NewTask(t, "ensure_agent_keypair", JNull),
                                                   LoadAgentKeypair(keyFile))]
    /\ UNCHANGED <<strings, python, proxy, calls, deviceKeys, tokenStore, agentKey, codec, loop>>

\* generate_agent_keypair() and the keys_path.write_text(...) of
\* save_agent_keypair: a new file gets the mode the umask leaves of 0666,
\* an existing file keeps its mode.
EnsureSave(t) ==
    /\ tasks[t].fn = "ensure_agent_keypair"
    /\ tasks[t].pc = "save"
    /\ \E k \in {1, 2} :
          /\ keyFile' = [keyFile EXCEPT
                            !.exists = TRUE,
                            !.text = KeyFileText(PublicText(k), PrivateText(k)),
                            !.mode = IF keyFile.exists THEN keyFile.mode
                                     ELSE Masked(<<6, 6, 6>>, tasks[t].umask)]
          /\ tasks' = [tasks EXCEPT ![t].pc = "chmod", ![t].pair = k]
    /\ UNCHANGED <<strings, python, proxy, calls, deviceKeys, tokenStore, agentKey, codec, loop>>

\* keys_path.chmod(0o600) of save_agent_keypair
EnsureChmod(t) ==
    /\ tasks[t].fn = "ensure_agent_keypair"
    /\ tasks[t].pc = "chmod"
    /\ keyFile' = [keyFile EXCEPT !.mode = <<6, 0, 0>>]
    /\ tasks' = [tasks EXCEPT ![t].pc = "register"]
    /\ UNCHANGED <<strings, python, proxy, calls, deviceKeys, tokenStore, agentKey, codec, loop>>

\* An ensure_agent_keypair that lets a failed registration out.
AfterRegistration_Raises(task, registered) ==
    EndTask([task EXCEPT !.trace = Append(task.trace,
                                          Ev("register", JStr(PublicText(task.pair)),
                                             JBool(registered)))],
            IF registered
            THEN Returned(JList(<<JStr(PublicText(task.pair)), JStr(PrivateText(task.pair))>>))
            ELSE Raised(S("Failed to register public key with backend")),
            keyFile)

\* ensure_agent_keypair after register_public_key_with_backend returned
\* True or False: return public_key, private_key
AfterRegistration(task, registered) ==
    EndTask([task EXCEPT !.trace = Append(task.trace,
                                          Ev("register", JStr(PublicText(task.pair)),
                                             JBool(registered)))],
            Returned(JList(<<JStr(PublicText(task.pair)), JStr(PrivateText(task.pair))>>)),
            keyFile)

\* register_public_key_with_backend(public_key) up to its POST of
\* /api/v1/keys/register.  It returns False and sends nothing when
\* get_current_agent_id() gives no agent id (no token, or a token that is
\* no JWT naming an agent) and, under OAuth, when the token file holds no
\* access token; else it sends the POST and awaits the answer.
EnsureRegister(t) ==
    /\ tasks[t].fn = "ensure_agent_keypair"
    /\ tasks[t].pc = "register"
    /\ \E agent_id \in BOOLEAN :
          tasks' = [tasks EXCEPT ![t] =
                       IF ~agent_id THEN AfterRegistration(tasks[t], FALSE)
                       ELSE IF is_using_oauth /\ ~Truthy(get_current_oauth_token)
                            THEN AfterRegistration(tasks[t], FALSE)
                       ELSE [tasks[t] EXCEPT !.pc = "register_wait"]]
    /\ UNCHANGED <<strings, python, proxy, calls, deviceKeys, tokenStore, keyFile, agentKey, codec, loop>>

\* The answer to the POST arrives: status 200, or another status or an
\* exception.  register_public_key_with_backend returns True or False, and
\* ensure_agent_keypair returns.
EnsureRegisterReturn(t) ==
    /\ tasks[t].fn = "ensure_agent_keypair"
    /\ tasks[t].pc = "register_wait"
    /\ LoopFree(t)
    /\ \E registered \in BOOLEAN :
          tasks' = [tasks EXCEPT ![t] = AfterRegistration(tasks[t], registered)]
    /\ UNCHANGED <<strings, python, proxy, calls, deviceKeys, tokenStore, keyFile, agentKey, codec, loop>>

\* load_agent_keypair() with the default path
LoadCall(t) ==
    /\ CanStart(t)
    /\ LET Loaded(kp) == IF kp.ok THEN Returned(kp.v) ELSE Raised(kp.err)
       IN  /\ keyFile' = get_agent_keys_path(keyFile, tasks[t].umask)
           /\ tasks' = [tasks EXCEPT ![t] = EndTask(NewTask(t, "load_agent_keypair", JNull),
                                                    Loaded(LoadAgentKeypair(keyFile)),
                                                    get_agent_keys_path(keyFile, tasks[t].umask))]
    /\ UNCHANGED <<strings, python, proxy, calls, deviceKeys, tokenStore, agentKey, codec, loop>>

\* get_device_public_keys of either proxy, up to is_using_oauth()
GetKeysStart(t) ==
    /\ CanStart(t)
    /\ \E module \in {"PH", "FM"} :
          LET Checked(task) ==
                  IF is_using_oauth THEN [task EXCEPT !.pc = "token"]
                  ELSE EndTask(task, Raised(IF module = "PH" THEN NoOAuth
                                            ELSE S("Device key retrieval requires OAuth authentication")),
                               keyFile)
          IN  tasks' = [tasks EXCEPT ![t] =
                           Checked(NewTask(t, "get_device_public_keys",
                                           IF module = "PH" THEN Str("PH") ELSE Str("FM")))]
    /\ UNCHANGED <<strings, python, proxy, calls, deviceKeys, tokenStore, keyFile, agentKey, codec, loop>>

\* get_device_public_keys from get_current_oauth_token() to the GET of
\* /api/v1/devices/public-keys with the Authorization header
\* f"Bearer {oauth_token}"
GetKeysSend(t) ==
    /\ tasks[t].fn = "get_device_public_keys"
    /\ tasks[t].pc = "token"
    /\ LET Header(oauth_token) ==
               JStr(S("Bearer ") \o (IF oauth_token = JNull THEN S("None") ELSE oauth_token.s))
       IN  tasks' = [tasks EXCEPT ![t].pc = "keys_wait",
                        ![t].trace = Append(tasks[t].trace,
                                            Ev("get", JNull, Header(get_current_oauth_token)))]
    /\ UNCHANGED <<strings, python, proxy, calls, deviceKeys, tokenStore, keyFile, agentKey, codec, loop>>

\* The backend answers the GET: 200 with the key list, or another status.
GetKeysReturn(t) ==
    /\ tasks[t].fn = "get_device_public_keys"
    /\ tasks[t].pc = "keys_wait"
    /\ LoopFree(t)
    /\ \/ tasks' = [tasks EXCEPT ![t] =
                       EndTask(tasks[t], Returned(Get(Dict(<< <<"public_keys", deviceKeys>> >>),
                                                      "public_keys", JList(<<>>))),
                               keyFile)]
       \/ tasks' = [tasks EXCEPT ![t] =
                       EndTask(tasks[t], Raised(S("Failed to get device public keys: 401 - ")),
                               keyFile)]
    /\ UNCHANGED <<strings, python, proxy, calls, deviceKeys, tokenStore, keyFile, agentKey, codec, loop>>

\* ProxyHandler.process_encrypted_response is called with a response of the
\* backend and the key of the first device; its load_agent_keypair() makes
\* the directory of the key file if there is none.
ProcessCall(t) ==
    /\ CanStart(t)
    /\ keyFile' = get_agent_keys_path(keyFile, tasks[t].umask)
    /\ \E response_payload \in E2eeReplies(JNum(1)) :
          tasks' = [tasks EXCEPT ![t] =
                       EndTask(NewTask(t, "process_encrypted_response", response_payload),
                               Returned(process_encrypted_response(keyFile, response_payload,
                                                                   JStr(PublicText(3)))),
                               get_agent_keys_path(keyFile, tasks[t].umask))]
    /\ UNCHANGED <<strings, python, proxy, calls, deviceKeys, tokenStore, agentKey, codec, loop>>

\* ------------------------------------------------------------------------
\* Specifications
\* ------------------------------------------------------------------------

Init ==
    /\ strings = StringTable
    /\ python = "3.13.13"
    /\ keyFile = [exists |-> TRUE, text |-> KeyFileText(PublicText(1), PrivateText(1)),
                  mode |-> <<6, 0, 0>>, dir |-> <<7, 0, 0>>]
    /\ agentKey = LoadAgentKeypair(keyFile).v
    /\ proxy \in {"PH", "FM"}
    /\ calls = [c \in CallIds |-> IdleCall]
    /\ deviceKeys \in DeviceKeyLists
    /\ tokenStore \in {"valid", "absent", "no_access_token"}
    /\ codec = CodecOff
    /\ loop = LoopOff
    /\ tasks = [t \in TaskIds |-> TaskOff]

Next ==
    \/ \E c \in CallIds : PHStart(c)
    \/ \E c \in CallIds : PHForwardReturn(c)
    \/ \E c \in CallIds : PHListReturn(c)
    \/ \E c \in CallIds : PHKeysReturn(c)
    \/ \E c \in CallIds : PHE2eeReturn(c)
    \/ \E c \in CallIds : FMStart(c)
    \/ \E c \in CallIds : FMKeysReturn(c)
    \/ \E c \in CallIds : FMCallReturn(c)
    \/ DeviceListChange
    \/ TokenFileChange
    \/ KeyFileTruncate
    \/ KeyFileWrite

\* The proxy serving calls.
Spec == Init /\ [][Next]_vars

\* The codec on its own, for each agent key pair, device, key list, argument
\* mapping and nonce.
InitCodec ==
    /\ strings = StringTable
    /\ \E a \in {1, 2} :
          keyFile = [exists |-> TRUE, text |-> KeyFileText(PublicText(a), PrivateText(a)),
                     mode |-> <<6, 0, 0>>, dir |-> <<7, 0, 0>>]
    /\ python \in {"3.11.7", "3.13.13"}
    /\ agentKey = LoadAgentKeypair(keyFile).v
    /\ proxy = "PH"
    /\ calls = [c \in CallIds |-> IdleCall]
    /\ deviceKeys = JList(<<>>)
    /\ tokenStore = "valid"
    /\ loop = LoopOff
    /\ tasks = [t \in TaskIds |-> TaskOff]
    /\ \E device \in {3, 4}, more \in BOOLEAN, m \in ArgumentMappings, nonce \in CodecNonces :
          codec = [CodecOff EXCEPT !.pc = "start", !.device = device, !.m = m, !.nonce = nonce,
                     !.keys = JList(IF more
                                    THEN <<JStr(PublicText(device)),
                                           JStr(PublicText(OtherDevice(device)))>>
                                    ELSE <<JStr(PublicText(device))>>)]

NextCodec ==
    \/ CodecSeal
    \/ CodecDeviceOpen
    \/ CodecDeviceReply
    \/ CodecTransit
    \/ CodecOpen

SpecCodec == InitCodec /\ [][NextCodec]_vars

\* ProxyHandler run by start_proxy_loop: requests arrive as lines on stdin
\* and are handled one after the other.
InitLoop ==
    /\ strings = StringTable
    /\ python = "3.13.13"
    /\ keyFile = [exists |-> TRUE, text |-> KeyFileText(PublicText(1), PrivateText(1)),
                  mode |-> <<6, 0, 0>>, dir |-> <<7, 0, 0>>]
    /\ agentKey = LoadAgentKeypair(keyFile).v
    /\ proxy = "PH"
    /\ calls = [c \in CallIds |-> IdleCall]
    /\ deviceKeys \in DeviceKeyLists
    /\ tokenStore \in {"valid", "absent"}
    /\ codec = CodecOff
    /\ loop = [LoopOff EXCEPT !.pc = "reading"]
    /\ tasks = [t \in TaskIds |-> TaskOff]

NextLoop ==
    \/ LoopRead
    \/ LoopWrite
    \/ \E c \in CallIds : PHForwardReturn(c)
    \/ \E c \in CallIds : PHListReturn(c)
    \/ \E c \in CallIds : PHKeysReturn(c)
    \/ \E c \in CallIds : PHE2eeReturn(c)

SpecLoop == InitLoop /\ [][NextLoop]_vars

\* The operations of crypto.py, auth.py and the proxy modules on their
\* own, for each key file, token file and umask; the token file may change
\* between any two steps.
InitKeys ==
    /\ strings = StringTable
    /\ python = "3.13.13"
    /\ proxy = "PH"
    /\ calls = [c \in CallIds |-> IdleCall]
    /\ deviceKeys = JList(<<JStr(PublicText(3))>>)
    /\ tokenStore \in {"valid", "absent", "no_access_token"}
    /\ keyFile \in KeyFiles
    /\ agentKey = JList(<<JStr(PublicText(1)), JStr(PrivateText(1))>>)
    /\ codec = CodecOff
    /\ \E umask \in {<<0, 2, 2>>, <<0, 7, 7>>} :
          tasks = [t \in TaskIds |-> [TaskOff EXCEPT !.pc = "idle", !.umask = umask]]
    /\ loop = LoopOff

NextKeys ==
    \/ \E t \in TaskIds : EnsureStart(t)
    \/ \E t \in TaskIds : EnsureSave(t)
    \/ \E t \in TaskIds : EnsureChmod(t)
    \/ \E t \in TaskIds : EnsureRegister(t)
    \/ \E t \in TaskIds : EnsureRegisterReturn(t)
    \/ \E t \in TaskIds : LoadCall(t)
    \/ \E t \in TaskIds : GetKeysStart(t)
    \/ TokenFileChange
    \/ \E t \in TaskIds : GetKeysSend(t)
    \/ \E t \in TaskIds : GetKeysReturn(t)
    \/ \E t \in TaskIds : ProcessCall(t)

SpecKeys == InitKeys /\ [][NextKeys]_vars

\* ------------------------------------------------------------------------
\* What a call is observed to do
\* ------------------------------------------------------------------------

Started(c) == calls[c].pc # "idle"

Finished(c) == calls[c].pc = "done"

\* The events of call c named ev, in the order in which they happened.
Events(c, ev) == SelectSeq(calls[c].trace, LAMBDA e : e.ev = ev)

\* d[k] of a dict, null for a missing key or a value that is no dict.
Field(d, k) == IF IsDict(d) THEN Get(d, k, JNull) ELSE JNull

\* Call c calls a tool.
IsToolCall(c) ==
    /\ Started(c)
    /\ IsDict(calls[c].request)
    /\ proxy = "PH" => Field(calls[c].request, "method") = Str("tools/call")

\* Call c asks for the tool list.
IsListCall(c) ==
    /\ Started(c)
    /\ IF proxy = "PH" THEN Field(calls[c].request, "method") = Str("tools/list")
       ELSE calls[c].request = Str("list_tools")

\* The tool call c names and the arguments it passes.
ToolName(c) ==
    IF proxy = "PH" THEN Field(Field(calls[c].request, "params"), "name")
    ELSE Field(calls[c].request, "name")

ToolArguments(c) ==
    IF proxy = "PH" THEN Field(Field(calls[c].request, "params"), "arguments")
    ELSE Field(calls[c].request, "arguments")

\* The tools whose arguments and results must not reach the backend in
\* plaintext.
SensitiveTools == {Str("request_human_input"), Str("notify_human")}

IsSensitiveCall(c) == IsToolCall(c) /\ ToolName(c) \in SensitiveTools

\* The tool and the arguments of a request handed to the backend gateway:
\* a JSON-RPC request of ProxyHandler, a call_tool of the FastMCP server.
GatewayTool(req) ==
    IF HasKey(req, "params") THEN Field(Field(req, "params"), "name") ELSE Field(req, "name")

GatewayArguments(req) ==
    IF HasKey(req, "params") THEN Field(Field(req, "params"), "arguments")
    ELSE Field(req, "arguments")

\* The request names the encrypted variant of the tool of call c and carries
\* nothing but 'encrypted_payload'.
IsSealedRequest(c, req) ==
    /\ IsStr(ToolName(c))
    /\ GatewayTool(req) = JStr(ToolName(c).s \o S("_e2ee"))
    /\ IsDict(GatewayArguments(req))
    /\ Len(GatewayArguments(req).kids) = 1
    /\ HasKey(GatewayArguments(req), "encrypted_payload")

\* The first entry of a key list, null when there is none.
FirstOf(keys) == IF IsList(keys) /\ keys.kids # <<>> THEN keys.kids[1] ELSE JNull

\* The message of the error a call ended with: of the JSON-RPC error it
\* returned, or of the exception it raised.
ErrorMessage(out) ==
    IF out.kind = "raised" THEN out.err
    ELSE IF out.kind = "returned" /\ ~HasKey(out.v, "result")
            /\ IsStr(Field(Field(out.v, "error"), "message"))
         THEN Field(Field(out.v, "error"), "message").s
    ELSE <<>>

\* The tools a finished list call returned to its caller.
ListedTools(c) ==
    IF calls[c].out.kind # "returned" THEN <<>>
    ELSE IF proxy = "PH"
         THEN IF IsList(Field(Field(calls[c].out.v, "result"), "tools"))
              THEN Field(Field(calls[c].out.v, "result"), "tools").kids
              ELSE <<>>
    ELSE calls[c].out.v.kids

\* The tool's name ends with the suffix of the encrypted variants.
HasSuffix(tool) == IsStr(Field(tool, "name")) /\ EndsWith(Field(tool, "name").s, S("_e2ee"))

\* The steps of a trace are in the order of the protocol: no sealing before
\* the key fetch has returned, no backend invocation before the arguments
\* are sealed, no opening before the backend invocation has returned.
StepsInOrder(trace) ==
    \A i \in 1..Len(trace) :
        /\ trace[i].ev = "seal" => \E j \in 1..(i - 1) : trace[j].ev = "fetched"
        /\ trace[i].ev = "gateway" => \E j \in 1..(i - 1) : trace[j].ev = "sealed"
        /\ trace[i].ev = "open" =>
              \E j \in 1..(i - 1) :
                  /\ trace[j].ev = "returned"
                  /\ \E k \in 1..(j - 1) : trace[k].ev = "gateway"

\* The response is a JSON-RPC error -32603 'Failed to decrypt response' and
\* holds no result.
IsDecryptError(resp) ==
    /\ IsDict(resp)
    /\ ~HasKey(resp, "result")
    /\ Field(Field(resp, "error"), "code") = JNum(0 - 32603)
    /\ IsStr(Field(Field(resp, "error"), "message"))
    /\ Contains(Field(Field(resp, "error"), "message").s, S("Failed to decrypt response"))

\* ------------------------------------------------------------------------
\* Claims
\* ------------------------------------------------------------------------

\* C1: while ProxyHandler handles a tools/call for request_human_input or
\* notify_human, every request it hands to the backend names the '_e2ee'
\* variant of the tool and carries only 'encrypted_payload'.
C1_SensitiveNeverPlaintext ==
    \A c \in CallIds :
        (proxy = "PH" /\ IsSensitiveCall(c)) =>
            \A i \in 1..Len(calls[c].trace) :
                calls[c].trace[i].ev = "gateway" => IsSealedRequest(c, calls[c].trace[i].req)

\* ProxyHandler has posted a notify_human call to the backend as it came,
\* message and all.
C1_NotifyPostedPlain ==
    \E c \in CallIds :
        /\ proxy = "PH"
        /\ IsToolCall(c)
        /\ ToolName(c) = Str("notify_human")
        /\ \E i \in 1..Len(calls[c].trace) :
              /\ calls[c].trace[i].ev = "post"
              /\ calls[c].trace[i].req = calls[c].request
              /\ GatewayArguments(calls[c].trace[i].req) = NotifyArguments

\* C2: a sensitive-tool call whose key fetch returned an empty list has
\* ended, with an error that says 'No device public keys', and has invoked
\* the backend gateway zero times.
C2_NoKeysNoGateway ==
    \A c \in CallIds :
        (IsSensitiveCall(c)
           /\ \E i \in 1..Len(calls[c].trace) :
                 calls[c].trace[i].ev = "fetched" /\ ~Truthy(calls[c].trace[i].req)) =>
            /\ Finished(c)
            /\ Contains(ErrorMessage(calls[c].out), S("No device public keys"))
            /\ Events(c, "gateway") = <<>>
            /\ Events(c, "post") = <<>>

\* Both tools of the FastMCP server were refused for want of a device key.
C2_BothToolsRefused ==
    \E c, d \in CallIds :
        /\ proxy = "FM"
        /\ ToolName(c) = Str("request_human_input")
        /\ ToolName(d) = Str("notify_human")
        /\ \A e \in {c, d} :
              /\ Events(e, "fetched") # <<>>
              /\ Events(e, "fetched")[1].req = JList(<<>>)
              /\ calls[e].out.kind = "raised"

\* C3: no tool in the list a tools/list call returns to its caller has a
\* name ending with '_e2ee', whatever catalog the backend answered with.
C3_NoEncryptedVariantListed ==
    \A c \in CallIds :
        IsListCall(c) =>
            \A i \in 1..Len(ListedTools(c)) : ~HasSuffix(ListedTools(c)[i])

\* ProxyHandler returned a list of tools out of a backend catalog that held
\* encrypted variants beside them.
C3_VariantsFilteredOut ==
    \E c \in CallIds :
        /\ proxy = "PH"
        /\ IsListCall(c)
        /\ Len(ListedTools(c)) = 3
        /\ \E i \in 1..Len(calls[c].trace) :
              /\ calls[c].trace[i].ev = "returned"
              /\ LET catalog == Field(Field(calls[c].trace[i].req, "result"), "tools").kids
                 IN  Len(catalog) = 5 /\ \E k \in 1..Len(catalog) : HasSuffix(catalog[k])

\* C4: a tools/call of ProxyHandler for a tool that is not sensitive hands
\* the request to the backend once and as it came, returns the backend's
\* response as it came, and fetches no key, seals nothing, opens nothing.
C4_OtherToolsPassThrough ==
    \A c \in CallIds :
        (proxy = "PH" /\ IsToolCall(c) /\ ToolName(c) \notin SensitiveTools) =>
            /\ \A i \in 1..Len(calls[c].trace) :
                  calls[c].trace[i].ev \in {"gateway", "post", "returned",
                                            "status", "timeout", "transport"}
            /\ Len(Events(c, "gateway")) = 1
            /\ Events(c, "gateway")[1].req = calls[c].request
            /\ Len(Events(c, "post")) <= 1
            /\ \A i \in 1..Len(Events(c, "post")) : Events(c, "post")[i].req = calls[c].request
            /\ Len(Events(c, "returned")) <= 1
            /\ (Events(c, "returned") # <<>> =>
                   calls[c].out = Returned(Events(c, "returned")[1].req))
            /\ (calls[c].out.kind = "returned" => Events(c, "returned") # <<>>)

\* A call for other_tool went to the backend and its result came back to
\* the caller.
C4_OtherToolAnswered ==
    \E c \in CallIds :
        /\ proxy = "PH"
        /\ IsToolCall(c)
        /\ ToolName(c) = Str("other_tool")
        /\ Finished(c)
        /\ Events(c, "post") # <<>>
        /\ calls[c].out.kind = "returned"
        /\ Field(calls[c].out.v, "result") = ToolResult(Str("Success"))

\* C5: a sensitive-tool call that has sealed its arguments invokes the
\* backend exactly once, for the tool's name plus '_e2ee', with the single
\* argument 'encrypted_payload' holding what the sealing produced: a payload
\* the device opens to the call's arguments.  The device opens the payload
\* while the invocation is the last step of the call; the steps a call has
\* taken stay as they are from then on.
C5_OneSealedInvocation ==
    \A c \in CallIds :
        (IsSensitiveCall(c) /\ Events(c, "sealed") # <<>>) =>
            LET gateway == Events(c, "gateway")
                sealed == Events(c, "sealed")
                Opens(payload) ==
                    LET opened == DeviceOpen(CHOOSE d \in KeyPairIds :
                                                 JStr(PublicText(d)) = sealed[1].key,
                                             agentKey.kids[1], payload)
                    IN  opened.ok /\ JsonEq(opened.v, ToolArguments(c))
            IN  /\ Len(sealed) = 1
                /\ Len(gateway) = 1
                /\ Len(Events(c, "post")) <= 1
                /\ GatewayTool(gateway[1].req) = JStr(ToolName(c).s \o S("_e2ee"))
                /\ GatewayArguments(gateway[1].req)
                     = Dict(<< <<"encrypted_payload", sealed[1].req>> >>)
                /\ calls[c].trace[Len(calls[c].trace)].ev \in {"sealed", "gateway", "post"} =>
                       Opens(sealed[1].req)

\* The FastMCP server has posted a notify_human call as notify_human_e2ee.
C5_NotifySentSealed ==
    \E c \in CallIds :
        /\ proxy = "FM"
        /\ ToolName(c) = Str("notify_human")
        /\ Events(c, "sealed") # <<>>
        /\ Events(c, "post") # <<>>
        /\ GatewayTool(Events(c, "post")[1].req) = Str("notify_human_e2ee")
        /\ Finished(c)
        /\ calls[c].out.kind = "returned"

\* C6: the steps of every sensitive-tool call happen in the order fetch
\* keys, seal, invoke the backend, open: the backend is not invoked before
\* the arguments are sealed, sealing does not start before the key fetch has
\* returned, opening does not start before the backend invocation returned.
C6_StepsInOrder ==
    \A c \in CallIds : IsSensitiveCall(c) => StepsInOrder(calls[c].trace)

\* ProxyHandler has answered a notify_human call after invoking the backend
\* without having fetched a key or sealed anything.
C6_InvokedUnsealed ==
    \E c \in CallIds :
        /\ proxy = "PH"
        /\ IsSensitiveCall(c)
        /\ Finished(c)
        /\ Events(c, "gateway") # <<>>
        /\ Events(c, "returned") # <<>>
        /\ Events(c, "fetched") = <<>>
        /\ Events(c, "sealed") = <<>>

\* C7: in every sensitive-tool call, the key that seals the request and the
\* key that opens the response are one key: the first entry of the list that
\* call fetched, whatever other calls do and however the backend's list
\* changes meanwhile.
C7_SameKeySealsAndOpens ==
    \A c \in CallIds :
        IsSensitiveCall(c) =>
            \A i \in 1..Len(calls[c].trace) :
                calls[c].trace[i].ev \in {"seal", "sealed", "open"} =>
                    /\ Len(Events(c, "fetched")) = 1
                    /\ calls[c].trace[i].key # JNull
                    /\ calls[c].trace[i].key = FirstOf(Events(c, "fetched")[1].req)

\* Two calls have each opened a response, with different keys, and the
\* backend's list now starts with neither.
C7_TwoCallsTwoKeys ==
    \E c, d \in CallIds :
        /\ Events(c, "open") # <<>>
        /\ Events(d, "open") # <<>>
        /\ Events(c, "open")[1].key = JStr(PublicText(3))
        /\ Events(d, "open")[1].key = JStr(PublicText(4))
        /\ FirstOf(deviceKeys) = JNull

\* C8: opening fails, by decrypt_response with 'Failed to decrypt response'
\* and by process_encrypted_response with the -32603 error and no result,
\* whenever the payload is not valid base64, a byte of it was altered, or a
\* device other than the one whose key is passed sealed it.
C8_OpenFailsClosed ==
    (codec.pc = "opened"
       /\ (~IsValidB64(codec.wire.s) \/ codec.fault = "altered" \/ codec.sealer # codec.device)) =>
        /\ ~codec.opened.ok
        /\ Contains(codec.opened.err, S("Failed to decrypt response"))
        /\ IsDecryptError(codec.processed)

\* A payload that is not valid base64 was opened, and the plaintext came
\* out of both functions.
C8_BrokenEncodingOpened ==
    /\ codec.pc = "opened"
    /\ codec.fault = "encoding"
    /\ ~IsValidB64(codec.wire.s)
    /\ codec.opened = Ok(JStr(codec.text))
    /\ Field(codec.processed, "result") = Dict(<< <<"content", JList(<<TextBlock(codec.text)>>)>> >>)

\* C9: what encrypt_arguments seals for a key list headed by a device's key
\* that device opens, with the agent's public key, to a value structurally
\* equal to the mapping; what the device seals for the agent decrypt_response
\* opens, with the device's key, to the text the device sealed.
C9_RoundTrip ==
    /\ codec.pc \in {"sealed", "delivered", "replied", "arrived", "opened"} =>
          codec.payload.ok
    /\ codec.pc = "sealed" =>
          DeviceOpen(codec.device, agentKey.kids[1], codec.payload.v).ok
    /\ codec.pc \in {"delivered", "replied", "arrived", "opened"} =>
          /\ codec.delivered.ok
          /\ JsonEq(codec.delivered.v, codec.m)
    /\ (codec.pc = "opened" /\ codec.fault = "none" /\ codec.sealer = codec.device) =>
          codec.opened = Ok(JStr(codec.text))

\* A mapping with escaped and multi-byte characters, sealed for a list of
\* two keys, went to the device and the device's answer came back.
C9_WentBothWays ==
    /\ codec.pc = "opened"
    /\ codec.fault = "none"
    /\ codec.sealer = codec.device
    /\ Len(codec.keys.kids) = 2
    /\ HasKey(codec.m, "message")
    /\ codec.delivered = Ok(codec.m)
    /\ codec.opened.ok
    /\ codec.opened.v.s = <<79, 75, 32, 233>>

\* C10: a request_human_input call of ProxyHandler that succeeds returns a
\* response with the request's id whose result is a 'content' list with the
\* first block {type: 'text', text: the plaintext}.
C10_ResultShape ==
    \A c \in CallIds :
        (proxy = "PH" /\ IsToolCall(c) /\ ToolName(c) = Str("request_human_input")
           /\ Finished(c) /\ calls[c].out.kind = "returned" /\ HasKey(calls[c].out.v, "result")) =>
            /\ Field(calls[c].out.v, "id") = Field(calls[c].request, "id")
            /\ LET content == Field(Field(calls[c].out.v, "result"), "content")
               IN  /\ IsList(content)
                   /\ content.kids # <<>>
                   /\ content.kids[1] = TextBlock(S("Yes"))

\* A request_human_input call has returned the plaintext as a bare string
\* result.
C10_BareStringResult ==
    \E c \in CallIds :
        /\ proxy = "PH"
        /\ ToolName(c) = Str("request_human_input")
        /\ Finished(c)
        /\ Events(c, "open") # <<>>
        /\ calls[c].out.kind = "returned"
        /\ Field(calls[c].out.v, "result") = Str("Yes")

\* C11: in the FastMCP proxy, whenever call_tool returned a result whose
\* first text content block is the answer sealed for the agent by the device
\* the call selected, request_human_input returns the decrypted plaintext to
\* its caller, whatever the shape of the result.
C11_EveryShapeDecrypted ==
    \A c \in CallIds :
        (proxy = "FM" /\ Finished(c) /\ ToolName(c) = Str("request_human_input")) =>
            \A i \in 1..Len(calls[c].trace) :
                LET reply == calls[c].trace[i].req
                    content == Field(Field(reply, "result"), "content")
                    blocks == IF reply.t = "CallToolResult" THEN reply.kids
                              ELSE IF IsList(content) THEN content.kids
                              ELSE <<>>
                IN  (/\ calls[c].trace[i].ev = "returned"
                     /\ FirstOf(calls[c].keys) = JStr(PublicText(3))
                     /\ blocks # <<>>
                     /\ Field(blocks[1], "text") = SealedByD1)
                    => calls[c].out = Returned(Str("Yes"))

\* call_tool returned the MCP client's result object holding the sealed
\* answer of the selected device, and request_human_input raised.
C11_ResultObjectRefused ==
    \E c \in CallIds :
        /\ proxy = "FM"
        /\ Finished(c)
        /\ ToolName(c) = Str("request_human_input")
        /\ FirstOf(calls[c].keys) = JStr(PublicText(3))
        /\ \E i \in 1..Len(calls[c].trace) :
              /\ calls[c].trace[i].ev = "returned"
              /\ calls[c].trace[i].req = CallToolResult(<<TextBlock(SealedByD1.s)>>)
        /\ calls[c].out.kind = "raised"
        /\ Contains(calls[c].out.err, S("Unknown encrypted response format"))

\* C12: the tool list the FastMCP proxy server returns holds every tool of
\* the backend catalog whose name neither ends with '_e2ee' nor is the name
\* of a sensitive tool; for the catalog {request_human_input,
\* request_human_input_e2ee, notify_human, notify_human_e2ee, other_tool} it
\* is exactly {request_human_input, notify_human, other_tool}.
C12_PlainBackendToolsListed ==
    \A c \in CallIds :
        (proxy = "FM" /\ IsListCall(c) /\ Finished(c)) =>
            \A backendCatalog \in Catalogs :
                \A k \in 1..Len(backendCatalog) :
                    LET tool == backendCatalog[k] IN
                    (IsStr(Field(tool, "name")) /\ ~HasSuffix(tool)
                     /\ Field(tool, "name") \notin SensitiveTools)
                    => \E j \in 1..Len(ListedTools(c)) :
                           Field(ListedTools(c)[j], "name") = Field(tool, "name")

\* A catalog the backend may hold advertises other_tool, and the list the
\* FastMCP proxy server returned holds the two local tools and nothing else.
C12_OtherToolNotListed ==
    \E c \in CallIds :
        /\ proxy = "FM"
        /\ IsListCall(c)
        /\ Finished(c)
        /\ \E backendCatalog \in Catalogs :
              \E k \in 1..Len(backendCatalog) : Field(backendCatalog[k], "name") = Str("other_tool")
        /\ { Field(ListedTools(c)[j], "name") : j \in 1..Len(ListedTools(c)) }
              = {Str("request_human_input"), Str("notify_human")}

\* C13: whatever catalog the backend holds, the tool list returned to the
\* caller holds the name request_human_input exactly once and the name
\* notify_human exactly once.
C13_SensitiveNamesOnce ==
    \A c \in CallIds :
        (/\ IsListCall(c)
         /\ Finished(c)
         /\ calls[c].out.kind = "returned"
         /\ proxy = "PH" => HasKey(calls[c].out.v, "result"))
        => \A name \in SensitiveTools :
               Cardinality({ j \in 1..Len(ListedTools(c)) :
                               Field(ListedTools(c)[j], "name") = name }) = 1

\* The backend advertises no tool named notify_human, and the tool list
\* ProxyHandler returned holds none either.
C13_SensitiveNameMissing ==
    \E c \in CallIds :
        /\ proxy = "PH"
        /\ IsListCall(c)
        /\ Finished(c)
        /\ calls[c].out.kind = "returned"
        /\ HasKey(calls[c].out.v, "result")
        /\ Events(c, "returned") # <<>>
        /\ LET backendCatalog == BackendTools(Events(c, "returned")[1].req).kids IN
           \A k \in 1..Len(backendCatalog) : Field(backendCatalog[k], "name") # Str("notify_human")
        /\ \A j \in 1..Len(ListedTools(c)) : Field(ListedTools(c)[j], "name") # Str("notify_human")

\* C14: the proxy never retries: for one tool call of a caller, whatever its
\* outcome (transport failure, status other than success and timeout
\* included), the backend's tool invocation endpoint is called at most once.
C14_AtMostOneInvocation ==
    \A c \in CallIds :
        IsToolCall(c) => Len(Events(c, "post")) <= 1

\* A tool call whose backend invocation timed out has ended, and the
\* endpoint was called once.
C14_TimedOutCalledOnce ==
    \E c \in CallIds :
        /\ IsToolCall(c)
        /\ Finished(c)
        /\ Events(c, "timeout") # <<>>
        /\ Len(Events(c, "post")) = 1

\* C15: start_proxy_loop ends exactly when readline() has returned the end
\* of the stream, and then it returns normally; no failure in handling one
\* request (parse error, key fetch failure, backend failure, decryption
\* failure) ends the loop or leaves it as an exception.
C15_EndsOnlyAtEndOfStream ==
    /\ loop.pc \in {"reading", "handling", "exited"}
    /\ loop.pc = "exited" <=>
          (loop.io # <<>> /\ loop.io[Len(loop.io)] = [op |-> "read", text |-> <<>>])
    /\ \A i \in 1..(Len(loop.io) - 1) : loop.io[i] # [op |-> "read", text |-> <<>>]

\* The loop has answered a request, then readline() raised for a line
\* that could not be decoded, and the loop has ended with that exception,
\* the end of the stream never read.
C15_UndecodableLineEndedLoop ==
    /\ loop.pc = "raised"
    /\ \E i \in 1..Len(loop.io) : loop.io[i].op = "write"
    /\ loop.io[Len(loop.io)].op = "read_error"
    /\ \A i \in 1..Len(loop.io) : loop.io[i] # [op |-> "read", text |-> <<>>]

\* C16: every response line ProxyHandler writes in answer to a request that
\* carries an id carries the same id, be it a result or an error, and
\* whichever branch handled the request (the backend call raising included).
C16_ResponseCarriesRequestId ==
    \A i \in 2..Len(loop.io) :
        loop.io[i].op = "write" =>
            LET request == Loads(Strip(loop.io[i - 1].text))
                response == Loads(Strip(loop.io[i].text))
            IN  (request.ok /\ IsDict(request.v) /\ HasKey(request.v, "id"))
                => (response.ok /\ Field(response.v, "id") = Field(request.v, "id"))

\* The loop has answered a tools/call request of id 11, whose backend call
\* raised, with an error response of id null.
C16_RaisedAnsweredWithNullId ==
    \E i \in 2..Len(loop.io) :
        /\ loop.io[i].op = "write"
        /\ calls[1].out.kind = "raised"
        /\ IsToolCall(1)
        /\ Events(1, "post") # <<>>
        /\ Field(Loads(Strip(loop.io[i - 1].text)).v, "id") = JNum(11)
        /\ Field(Loads(Strip(loop.io[i].text)).v, "id") = JNull
        /\ Field(Field(Loads(Strip(loop.io[i].text)).v, "error"), "code") = JNum(0 - 32603)

\* C17: handle_mcp_request answers a malformed request line with a JSON-RPC
\* error and never raises: a line that is no JSON gets error -32700, a JSON
\* value without 'method' (a value that is no object included) gets error
\* -32600.
C17_MalformedAnsweredWithError ==
    (loop.pc = "handling" /\ calls[loop.cur].pc = "done") =>
        LET parsed == Loads(Strip(loop.io[Len(loop.io)].text))
            out == calls[loop.cur].out
            code == Field(Field(out.v, "error"), "code")
        IN  /\ ~parsed.ok => (out.kind = "returned" /\ code = JNum(0 - 32700))
            /\ (parsed.ok /\ ~(IsDict(parsed.v) /\ HasKey(parsed.v, "method")))
                  => (out.kind = "returned" /\ code = JNum(0 - 32600))

\* handle_mcp_request was given a line holding a JSON array, and raised.
C17_NonObjectRaised ==
    /\ loop.pc = "handling"
    /\ calls[loop.cur].pc = "done"
    /\ Loads(Strip(loop.io[Len(loop.io)].text)).ok
    /\ IsList(Loads(Strip(loop.io[Len(loop.io)].text)).v)
    /\ calls[loop.cur].out = Raised(S("'list' object has no attribute 'get'"))

C19_TimeoutDistinguishable ==
    \A c, d \in CallIds :
        (/\ Finished(c)
         /\ Finished(d)
         /\ Events(c, "timeout") # <<>>
         /\ \/ Events(d, "transport") # <<>>
            \/ Events(d, "status") # <<>>
            \/ Contains(ErrorMessage(calls[d].out), S("Failed to decrypt response")))
        => ErrorMessage(calls[c].out) # ErrorMessage(calls[d].out)

\* One request_human_input call of ProxyHandler ended by the timeout of the
\* backend invocation, another by a failure of the transport, and both
\* returned the same error to their callers.
C19_TimeoutLooksLikeTransportFailure ==
    \E c, d \in CallIds :
        /\ proxy = "PH"
        /\ ToolName(c) = Str("request_human_input")
        /\ ToolName(d) = Str("request_human_input")
        /\ Finished(c)
        /\ Finished(d)
        /\ Events(c, "timeout") # <<>>
        /\ Events(d, "transport") # <<>>
        /\ calls[c].out.kind = "returned"
        /\ Field(calls[c].out.v, "error") = Field(calls[d].out.v, "error")
        /\ Field(Field(calls[c].out.v, "error"), "message")
              = Str("Failed to process encrypted request: ")

\* C20: device keys are not kept from one call to the next: every call of a
\* sensitive tool fetches the device keys itself and seals for the first key
\* of the list its own fetch returned, so a call whose fetch returned a key
\* is not refused for want of keys, whatever happened to the calls before it.
C20_EachCallFetchesItsKeys ==
    \A c \in CallIds :
        IsSensitiveCall(c) =>
            /\ Events(c, "fetch") # <<>>
            /\ \A i \in 1..Len(calls[c].trace) :
                  calls[c].trace[i].ev = "seal" =>
                      \E j \in 1..(i - 1) :
                          /\ calls[c].trace[j].ev = "fetched"
                          /\ calls[c].trace[i].key = FirstOf(calls[c].trace[j].req)
            /\ (Finished(c) /\ \E j \in 1..Len(calls[c].trace) :
                                   /\ calls[c].trace[j].ev = "fetched"
                                   /\ Truthy(calls[c].trace[j].req))
                  => ~Contains(ErrorMessage(calls[c].out), S("No device public keys"))

\* ProxyHandler has invoked the backend for a notify_human call that
\* fetched no device keys.
C20_InvokedWithoutFetch ==
    \E c \in CallIds :
        /\ proxy = "PH"
        /\ IsSensitiveCall(c)
        /\ ToolName(c) = Str("notify_human")
        /\ Events(c, "post") # <<>>
        /\ Events(c, "fetch") = <<>>
        /\ Events(c, "fetched") = <<>>

\* ------------------------------------------------------------------------
\* C21: the identity key pair is loaded once per proxy process and does not
\* change afterwards: whenever a sensitive invocation opens a response, the
\* agent private key that opens it is the key loaded when the proxy was
\* constructed, the key that sealed the request, also when the key file
\* was replaced while the invocation was in flight.
\* ------------------------------------------------------------------------
C21_OpensWithStartupKey ==
    \A c \in CallIds :
        \A i \in 1..Len(calls[c].trace) :
            calls[c].trace[i].ev = "open" => calls[c].trace[i].req = agentKey.kids[2]

\* A ProxyHandler invocation was sealed with the key loaded at construction,
\* the key file was replaced while it waited for the backend, and the
\* response was opened.
C21_OpenedAfterReplacement ==
    \E c \in CallIds :
        /\ proxy = "PH"
        /\ Events(c, "sealed") # <<>>
        /\ Events(c, "open") # <<>>
        /\ keyFile.text = KeyFileText(PublicText(2), PrivateText(2))
        /\ agentKey.kids[2] = JStr(PrivateText(1))

\* ------------------------------------------------------------------------
\* C22: get_device_public_keys sends a request only with a real bearer
\* token: every GET it sends carries the Authorization header of the
\* access token, and when it has ended with no access token in the token
\* store (no file, a file without access_token, a file removed between
\* is_using_oauth() and the token read) it has raised the authentication
\* error and has sent nothing.
\* ------------------------------------------------------------------------
C22_NoRequestWithoutToken ==
    \A t \in TaskIds :
        tasks[t].fn = "get_device_public_keys" =>
            /\ \A i \in 1..Len(tasks[t].trace) :
                  tasks[t].trace[i].ev = "get" => tasks[t].trace[i].req = JStr(S("Bearer ") \o S("token"))
            /\ tasks[t].pc = "done" /\ tokenStore # "valid" =>
                  /\ tasks[t].trace = <<>>
                  /\ tasks[t].out.kind = "raised"
                  /\ Contains(tasks[t].out.err, S("requires OAuth authentication"))

\* get_device_public_keys found a token file without an access_token and
\* has sent its GET.
C22_SentBearerNone ==
    \E t \in TaskIds :
        /\ tasks[t].fn = "get_device_public_keys"
        /\ tokenStore = "no_access_token"
        /\ tasks[t].pc = "keys_wait"
        /\ tasks[t].trace = <<Ev("get", JNull, Str("Bearer None"))>>

\* ------------------------------------------------------------------------
\* C23: after ensure_agent_keypair has run with no key file present, the
\* key file exists with mode 0600 and its directory has mode 0700.
\* ------------------------------------------------------------------------
C23_FileAndDirectoryModes ==
    \A t \in TaskIds :
        tasks[t].fn = "ensure_agent_keypair" /\ tasks[t].pc = "done" /\ ~tasks[t].before.exists =>
            /\ tasks[t].after.exists
            /\ tasks[t].after.mode = <<6, 0, 0>>
            /\ tasks[t].after.dir = <<7, 0, 0>>

\* ensure_agent_keypair has run under umask 022 where there was neither a
\* key file nor its directory, and has made both.
C23_DirectoryMadeUnderUmask ==
    \E t \in TaskIds :
        /\ tasks[t].fn = "ensure_agent_keypair"
        /\ tasks[t].pc = "done"
        /\ tasks[t].umask = <<0, 2, 2>>
        /\ tasks[t].before.dir = <<>>
        /\ tasks[t].after.exists
        /\ tasks[t].after.dir = <<7, 5, 5>>

\* ------------------------------------------------------------------------
\* C24: once a valid key file exists, a call of ensure_agent_keypair
\* returns exactly the stored pair, leaves the key file as it was and makes
\* no attempt to register the public key; so repeated calls return the same
\* pair.
\* ------------------------------------------------------------------------
C24_StoredPairReturned ==
    \A t \in TaskIds :
        tasks[t].fn = "ensure_agent_keypair" /\ tasks[t].pc = "done" /\ LoadAgentKeypair(tasks[t].before).ok =>
            /\ tasks[t].out = Returned(LoadAgentKeypair(tasks[t].before).v)
            /\ tasks[t].after = tasks[t].before
            /\ tasks[t].trace = <<>>

\* A second operation, ensure_agent_keypair, has returned the pair that an
\* earlier ensure_agent_keypair generated and stored.
C24_SecondCallSamePair ==
    \E t \in TaskIds :
        /\ tasks[t].fn = "ensure_agent_keypair"
        /\ tasks[t].pc = "done"
        /\ tasks[t].n = 2
        /\ tasks[t].before.exists
        /\ tasks[t].out = Returned(JList(<<JStr(PublicText(2)), JStr(PrivateText(2))>>))
        /\ tasks[t].trace = <<>>

\* ------------------------------------------------------------------------
\* C25: when no key file exists, ensure_agent_keypair generates a pair,
\* persists it, attempts to register its public key with the backend
\* exactly once and returns the pair that load_agent_keypair then returns;
\* a failed registration is not raised and leaves the persisted pair in
\* place.
\* ------------------------------------------------------------------------
C25_NewPairPersistedAndRegisteredOnce ==
    \A t \in TaskIds :
        tasks[t].fn = "ensure_agent_keypair" /\ tasks[t].pc = "done" /\ ~tasks[t].before.exists =>
            /\ tasks[t].out = Returned(JList(<<JStr(PublicText(tasks[t].pair)), JStr(PrivateText(tasks[t].pair))>>))
            /\ LoadAgentKeypair(tasks[t].after) = Ok(tasks[t].out.v)
            /\ \E registered \in BOOLEAN :
                  tasks[t].trace = <<Ev("register", JStr(PublicText(tasks[t].pair)), JBool(registered))>>

\* ensure_agent_keypair found no key file, stored a new pair, and the
\* registration of the public key failed.
C25_RegistrationFailed ==
    \E t \in TaskIds :
        /\ tasks[t].fn = "ensure_agent_keypair"
        /\ tasks[t].pc = "done"
        /\ ~tasks[t].before.exists
        /\ tasks[t].pair = 2
        /\ tasks[t].trace = <<Ev("register", JStr(PublicText(2)), JBool(FALSE))>>
        /\ tasks[t].after.text = KeyFileText(PublicText(2), PrivateText(2))

\* ------------------------------------------------------------------------
\* C26: when a key file exists but cannot be parsed or fails the validation
\* of its keys, ensure_agent_keypair generates a new pair, persists it and
\* returns it.
\* ------------------------------------------------------------------------
C26_CorruptFileReplaced ==
    \A t \in TaskIds :
        /\ tasks[t].fn = "ensure_agent_keypair"
        /\ tasks[t].pc = "done"
        /\ tasks[t].before.exists
        /\ ~LoadAgentKeypair(tasks[t].before).ok
        => /\ tasks[t].out.kind = "returned"
           /\ tasks[t].pair \in {1, 2}
           /\ tasks[t].out.v = JList(<<JStr(PublicText(tasks[t].pair)), JStr(PrivateText(tasks[t].pair))>>)
           /\ LoadAgentKeypair(tasks[t].after) = Ok(tasks[t].out.v)

\* ensure_agent_keypair found a key file that is not valid JSON, raised
\* what load_agent_keypair raised and left the file as it was.
C26_CorruptFileRaised ==
    \E t \in TaskIds :
        /\ tasks[t].fn = "ensure_agent_keypair"
        /\ tasks[t].pc = "done"
        /\ tasks[t].before.text = S("{invalid json")
        /\ tasks[t].out = Raised(S("Invalid JSON in key file"))
        /\ tasks[t].after = tasks[t].before

\* ------------------------------------------------------------------------
\* C27: load_agent_keypair raises the not-found error when there is no key
\* file, and a corrupt-key error (ValueError or KeyError) when the file is
\* not valid JSON, lacks a key field or holds a key that fails validation;
\* when it raises it returns no pair and leaves the file system as it was,
\* and when it returns, it returns the stored pair.
\* ------------------------------------------------------------------------
C27_LoadFailsCleanly ==
    \A t \in TaskIds :
        tasks[t].fn = "load_agent_keypair" /\ tasks[t].pc = "done" =>
            /\ ~tasks[t].before.exists => tasks[t].out = Raised(S("Agent key file not found"))
            /\ tasks[t].before.exists /\ tasks[t].before.text # KeyFileText(PublicText(1), PrivateText(1))
                  /\ tasks[t].before.text # KeyFileText(PublicText(2), PrivateText(2)) =>
                  /\ tasks[t].out.kind = "raised"
                  /\ tasks[t].out.err \in {S("Invalid JSON in key file"), MissingKey(S("public_key")),
                                       MissingKey(S("private_key")), S("Invalid key data")}
            /\ tasks[t].out.kind = "raised" => tasks[t].after = tasks[t].before
            /\ tasks[t].out.kind = "returned" =>
                  \E k \in {1, 2} :
                      /\ tasks[t].before.text = KeyFileText(PublicText(k), PrivateText(k))
                      /\ tasks[t].out.v = JList(<<JStr(PublicText(k)), JStr(PrivateText(k))>>)
                      /\ tasks[t].after = tasks[t].before

\* load_agent_keypair was called where the directory of the key file did
\* not exist: it raised the not-found error, and the directory exists.
C27_LoadMadeDirectory ==
    \E t \in TaskIds :
        /\ tasks[t].fn = "load_agent_keypair"
        /\ tasks[t].pc = "done"
        /\ tasks[t].before.dir = <<>>
        /\ tasks[t].out = Raised(S("Agent key file not found"))
        /\ tasks[t].after.dir # <<>>

\* ------------------------------------------------------------------------
\* C29: process_encrypted_response, given a response of the backend that
\* is an error (it holds no 'result'), returns that response unchanged, as
\* ProxyHandler returns an error reply to the '_e2ee' invocation to the
\* caller unchanged without an attempt to decrypt it.
\* ------------------------------------------------------------------------
C29_ErrorResponseUnchanged ==
    /\ \A t \in TaskIds :
          tasks[t].fn = "process_encrypted_response" /\ tasks[t].pc = "done"
              /\ ~HasKey(tasks[t].arg, "result") =>
              tasks[t].out = Returned(tasks[t].arg)
    /\ \A c \in CallIds :
          /\ proxy = "PH"
          /\ calls[c].pc = "done"
          /\ Events(c, "returned") # <<>>
          /\ ~HasKey(Events(c, "returned")[1].req, "result")
          => /\ calls[c].out = Returned(Events(c, "returned")[1].req)
             /\ Events(c, "open") = <<>>

\* process_encrypted_response was given the backend's error -32000 and
\* returned the error -32603 'Failed to decrypt response: No encrypted
\* content'.
C29_ErrorResponseRewritten ==
    \E t \in TaskIds :
        /\ tasks[t].fn = "process_encrypted_response"
        /\ tasks[t].pc = "done"
        /\ tasks[t].arg = ErrorResponse(Str("2.0"), JNum(1), 0 - 32000,
                                    S("Request timed out waiting for human"))
        /\ LoadAgentKeypair(tasks[t].before).ok
        /\ tasks[t].out = Returned(ErrorResponse(Str("2.0"), JNum(1), 0 - 32603,
                                             S("Failed to decrypt response: ")
                                             \o S("No encrypted content")))

\* ------------------------------------------------------------------------
\* C30: whenever the agent key file exists and holds the private key, its
\* mode is 0600, also between the two steps of save_agent_keypair, so that
\* no other process can find the private key in a file with a broader
\* mode.
\* ------------------------------------------------------------------------
C30_PrivateKeyAlwaysOwnerOnly ==
    keyFile.exists /\ (\E k \in {1, 2} : Contains(keyFile.text, PrivateText(k))) =>
        keyFile.mode = <<6, 0, 0>>

\* save_agent_keypair, under umask 022, has written the new key file and
\* has not yet changed its mode.
C30_WrittenBeforeChmod ==
    \E t \in TaskIds :
        /\ tasks[t].fn = "ensure_agent_keypair"
        /\ tasks[t].pc = "chmod"
        /\ tasks[t].umask = <<0, 2, 2>>
        /\ keyFile.exists
        /\ keyFile.text = KeyFileText(PublicText(tasks[t].pair), PrivateText(tasks[t].pair))
        /\ keyFile.mode = <<6, 4, 4>>

====
